---- MODULE Spec2Model ----
(***************************************************************************)
(* The scanfrog game session (package game): the bubbletea Model, its      *)
(* Update function and the handlers it calls, driven by the events of one  *)
(* session: key presses, viewport-size events, ticks, and the one-shot     *)
(* result of the vulnerability provider.                                   *)
(*                                                                         *)
(* Numbers.  float64 values are kept in fixed point:                       *)
(*   - an obstacle's floatX and speed in 1/Scale of a column (lane speeds  *)
(*     are tenths, severity multipliers are tenths, so every product is a  *)
(*     whole number of hundredths);                                        *)
(*   - CVSS scores in tenths (95 is 9.5);                                  *)
(*   - time in units of one nominal tick, 1/30 s, so that                  *)
(*     speed * delta * 30.0 is speed * (number of units).                  *)
(* The arithmetic is exact, where float64 rounds in the last place.        *)
(*                                                                         *)
(* The Model's fields loadingMsg and containerImage, which only the view    *)
(* reads and no handler assigns, and its vulnSource are not part of the    *)
(* state: the source is the provider of the session.                       *)
(*                                                                         *)
(* Two things that no handler reads are followed in specifications of      *)
(* their own, which add them to the session of Spec: the quit message in   *)
(* flight in SpecQuit, and the time of the first move, which handleKeyPress *)
(* writes for the view, in SpecFirstMove.                                  *)
(*                                                                         *)
(* SpecSessions is the SSH server of the serve command: several sessions,  *)
(* each with a program of its own.  SpecGenerate calls generateObstacles   *)
(* on Models whose lanes the caller has set, which no session does.        *)
(* SpecPlacement calls it on the eight lanes with lists of every length   *)
(* up to MaxCount.  SpecWallClock is the session of Spec on a clock that   *)
(* runs from NewModel and passes in every phase, where Spec counts the     *)
(* time from the start of the current game.                                *)
(***************************************************************************)
EXTENDS Integers, Sequences, FiniteSets, TLC

VARIABLES
    m,              \* the Model value held by the bubbletea program
    now,            \* the last reading of time.Now(), 0 at the game's start
    loadMsg,        \* the one-shot load command of Init and its message
    ticks,          \* tick commands armed, or tick messages awaiting delivery
    intOfNaN,       \* <<int(NaN) on this build>>, <<>> until it was evaluated
    providerCalls,  \* invocations of VulnerabilitySource.GetVulnerabilities
    sideKeys,       \* horizontal key presses delivered in the current game
    loadField,      \* the field the load event left, and the width then
    track,          \* per obstacle: floatX at generation, wrapped since
    quitMsg,        \* tea.Quit's message: "none" or "sent"
    sessions        \* serve: per SSH session, its program, or NoSession

vars == <<m, now, loadMsg, ticks, intOfNaN, providerCalls, sideKeys,
          loadField, track, quitMsg, sessions>>

---------------------------------------------------------------------------
\* Bounds of the model.

MaxTime == 2        \* the longest game followed (units of 1/30 s)
MaxTicks == 2       \* a restart is not tried with this many ticks in flight
MaxSideKeys == 1    \* horizontal key presses the player makes per game
MaxSessionKeys == 2 \* key presses that change the Model, per server session

---------------------------------------------------------------------------
\* Program constants.

gameAreaHeight == 20
DefaultWidth == 80
DefaultHeight == 24
NumDecorativeItems == 12
MarginCols == 5

Scale == 10 * 10            \* fixed point of floatX and speed
DecXScale == 3 * 10         \* fixed point of a decorative item's floatX
DecYScale == 3 * 1000       \* fixed point of a decorative item's floatY

\* Stand-ins for -2^63 (TLC's integers are 32 bits wide): an int, and the
\* float64 of that magnitude.  Only their order against the wrap thresholds
\* and float64's absorption of small addends matter.
MinInt64 == -(2^24)
NegHuge == -(2^30)

stateLoading == "Loading"
statePlaying == "Playing"
stateGameOver == "GameOver"
stateVictory == "Victory"

NoTime == -1                \* the zero time.Time
EarlierGame == -2           \* a time.Time of a game before the current one

---------------------------------------------------------------------------
\* Inputs of the session.

QuitKeys == {"q", "esc", "ctrl+c"}
RestartKeys == {"enter", " "}
UpKeys == {"up", "w"}
DownKeys == {"down", "s"}
LeftKeys == {"left", "a"}
RightKeys == {"right", "d"}
MoveKeys == UpKeys \cup DownKeys \cup LeftKeys \cup RightKeys
\* The keys the player presses: one or two of each kind, and an unbound one.
Keys == {"q", "enter", " ", "up", "s", "left", "d", "x"}

\* Viewport-size events: one valid size, narrower than the default and lower
\* than the playable area, and the two invalid shapes.
Sizes == {<<16, 10>>, <<0, 30>>, <<40, 0>>}

Vuln(id, label, cvss) == [ID |-> id, Severity |-> label, CVSS |-> cvss]

\* What the provider may return: no record, fewer records than lanes, and
\* more records than lanes, over every branch of the severity mapping.
VulnLists ==
    { <<>>,
      << Vuln("CVE-1", "Critical", 0), Vuln("GHSA-2", "", 72) >>,
      << Vuln("CVE-1", "High", 75),    Vuln("CVE-2", "Medium", 0),
         Vuln("GHSA-3", "Low", 0),     Vuln("CVE-4", "Negligible", 0),
         Vuln("CVE-5", "Unknown", 0),  Vuln("CVE-6", "", 30),
         Vuln("XRAY-7", "Low", 95),    Vuln("CVE-8", "Critical", 50),
         Vuln("CVE-9", "Medium", 39) >> }

ProviderErrors == {"grype failed"}

\* int(NaN) is implementation-dependent in Go: amd64 yields -2^63, arm64 0.
IntOfNaNChoices == {MinInt64, 0}

\* Wall-clock phases sampled for the decorative bob, sin(t + i): t = 0, pi.
BobPhases == {1, -1}

---------------------------------------------------------------------------
\* float64 and int helpers.

\* Go's int(f): truncation towards zero of a fixed-point value.
Trunc(f, scale) == IF f >= 0 THEN f \div scale ELSE -((-f) \div scale)

\* Go's a / b on ints (truncated division).
GoDiv(a, b) == IF a >= 0 THEN a \div b ELSE -((-a) \div b)

\* float64(n)
Float64(n) == IF n < MinInt64 \div 2 THEN NegHuge ELSE n * Scale

\* int(f)
IntOf(f) == IF f = NegHuge THEN MinInt64 ELSE Trunc(f, Scale)

\* f + d in float64: at the magnitude of 2^63 a small addend is absorbed.
FAdd(f, d) == IF f = NegHuge THEN NegHuge ELSE f + d

\* math.Mod(x, y) for y > 0: the result has the sign of x.
FMod(x, y) == IF x >= 0 THEN x % y ELSE -((-x) % y)

---------------------------------------------------------------------------
\* update.go: the severity mapping.

\* getObstacleProperties with a fault: a score has to exceed its threshold.
getObstaclePropertiesAbove(vuln) ==
    IF vuln.CVSS > 0
    THEN IF vuln.CVSS > 90 THEN [width |-> 2, speedMultiplier |-> 15]
         ELSE IF vuln.CVSS > 70 THEN [width |-> 2, speedMultiplier |-> 12]
         ELSE IF vuln.CVSS > 40 THEN [width |-> 1, speedMultiplier |-> 13]
         ELSE [width |-> 1, speedMultiplier |-> 10]
    ELSE CASE vuln.Severity = "Critical" -> [width |-> 2, speedMultiplier |-> 15]
           [] vuln.Severity = "High" -> [width |-> 2, speedMultiplier |-> 12]
           [] vuln.Severity = "Medium" -> [width |-> 1, speedMultiplier |-> 13]
           [] vuln.Severity = "Low" -> [width |-> 1, speedMultiplier |-> 10]
           [] vuln.Severity = "Negligible" -> [width |-> 1, speedMultiplier |-> 8]
           [] OTHER -> [width |-> 1, speedMultiplier |-> 10]

\* (width, speedMultiplier in tenths)
getObstacleProperties(vuln) ==
    IF vuln.CVSS > 0
    THEN IF vuln.CVSS >= 90 THEN [width |-> 2, speedMultiplier |-> 15]
         ELSE IF vuln.CVSS >= 70 THEN [width |-> 2, speedMultiplier |-> 12]
         ELSE IF vuln.CVSS >= 40 THEN [width |-> 1, speedMultiplier |-> 13]
         ELSE [width |-> 1, speedMultiplier |-> 10]
    ELSE CASE vuln.Severity = "Critical" -> [width |-> 2, speedMultiplier |-> 15]
           [] vuln.Severity = "High" -> [width |-> 2, speedMultiplier |-> 12]
           [] vuln.Severity = "Medium" -> [width |-> 1, speedMultiplier |-> 13]
           [] vuln.Severity = "Low" -> [width |-> 1, speedMultiplier |-> 10]
           [] vuln.Severity = "Negligible" -> [width |-> 1, speedMultiplier |-> 8]
           [] OTHER -> [width |-> 1, speedMultiplier |-> 10]

---------------------------------------------------------------------------
\* update.go: lanes and obstacle generation.

lanePositions == <<18, 16, 14, 12, 10, 8, 6, 4>>

\* laneAt with a fault: the directions start with -1.
laneAtLeftFirst(i) ==
    [y |-> lanePositions[i + 1],
     direction |-> 2 * (i % 2) - 1,
     speed |-> 5 + (i % 3) * 3]

\* The lane appended for index i (from 0) of lanePositions; speed in tenths.
laneAt(i) ==
    [y |-> lanePositions[i + 1],
     direction |-> 1 - 2 * (i % 2),
     speed |-> 5 + (i % 3) * 3]

makeLanes ==
    LET kept == {i \in 0 .. Len(lanePositions) - 1 :
                    lanePositions[i + 1] < gameAreaHeight}
        RECURSIVE build(_)
        build(i) == IF i >= Len(lanePositions) THEN <<>>
                    ELSE (IF i \in kept THEN <<laneAt(i)>> ELSE <<>>) \o build(i + 1)
    IN build(0)

\* spacing between successive obstacles of a lane, in columns
spacingFor(n) == IF n > 200 THEN 8 ELSE IF n > 100 THEN 12 ELSE 20

\* The modulus of the position wrap, in columns (the division is of ints).
loopLengthFor(vulns, lanes) ==
    (Len(vulns) \div Len(lanes)) * spacingFor(Len(vulns))

\* obstacleFor with a fault: two successive records share a lane.
obstacleForInPairs(i, vulns, lanes, width, nan) ==
    LET numLanes == Len(lanes)
        laneIdx == (i \div 2) % numLanes
        lane == lanes[laneIdx + 1]
        vuln == vulns[i + 1]
        props == getObstacleProperties(vuln)
        obstacleIndexInLane == i \div numLanes
        spacing == spacingFor(Len(vulns))
        baseX == obstacleIndexInLane * spacing * Scale
        laneOffset == laneIdx * 2 * Scale
        variation == ((i % 7) - 3) * (Scale \div 2)
        x0 == baseX + laneOffset + variation
        loopLength == loopLengthFor(vulns, lanes)
        isNaN == loopLength = 0
        x1 == IF isNaN THEN 0 ELSE FMod(x0, loopLength * Scale)
        x == IF x1 < 0 THEN x1 + loopLength * Scale ELSE x1
        intX == IF isNaN THEN nan ELSE Trunc(x, Scale)
        startX == IF lane.direction > 0
                  THEN intX - GoDiv(loopLength, 2)
                  ELSE intX + width - GoDiv(loopLength, 2)
    IN [pos |-> [x |-> startX, y |-> lane.y],
        floatX |-> Float64(startX),
        width |-> props.width,
        speed |-> lane.speed * props.speedMultiplier * lane.direction,
        cveID |-> vuln.ID,
        severity |-> vuln.CVSS,
        severityLabel |-> vuln.Severity]

\* The obstacle made for vulns[i + 1] (i counts from 0, as in the loop);
\* nan is int(NaN), used when the loop length is 0 and math.Mod yields NaN.
obstacleFor(i, vulns, lanes, width, nan) ==
    LET numLanes == Len(lanes)
        laneIdx == i % numLanes
        lane == lanes[laneIdx + 1]
        vuln == vulns[i + 1]
        props == getObstacleProperties(vuln)
        obstacleIndexInLane == i \div numLanes
        spacing == spacingFor(Len(vulns))
        baseX == obstacleIndexInLane * spacing * Scale
        laneOffset == laneIdx * 2 * Scale
        variation == ((i % 7) - 3) * (Scale \div 2)
        x0 == baseX + laneOffset + variation
        loopLength == loopLengthFor(vulns, lanes)
        isNaN == loopLength = 0
        x1 == IF isNaN THEN 0 ELSE FMod(x0, loopLength * Scale)
        x == IF x1 < 0 THEN x1 + loopLength * Scale ELSE x1
        intX == IF isNaN THEN nan ELSE Trunc(x, Scale)
        startX == IF lane.direction > 0
                  THEN intX - GoDiv(loopLength, 2)
                  ELSE intX + width - GoDiv(loopLength, 2)
    IN [pos |-> [x |-> startX, y |-> lane.y],
        floatX |-> Float64(startX),
        width |-> props.width,
        speed |-> lane.speed * props.speedMultiplier * lane.direction,
        cveID |-> vuln.ID,
        severity |-> vuln.CVSS,
        severityLabel |-> vuln.Severity]

\* math.Mod(x, 0) is NaN: int(NaN) is evaluated for this list and lanes.
usesIntOfNaN(vulns, lanes) ==
    Len(lanes) > 0 /\ Len(vulns) > 0 /\ Len(vulns) \div Len(lanes) = 0

\* generateObstacles with a fault: no more than one obstacle per lane.
generateObstaclesOnePerLane(vulns, lanes, width, nan) ==
    LET n == IF Len(vulns) < Len(lanes) THEN Len(vulns) ELSE Len(lanes)
    IN [k \in 1 .. n |-> obstacleFor(k - 1, vulns, lanes, width, nan)]

\* generateObstacles with a fault: without lanes, the eight lanes are used.
generateObstaclesDefaultLanes(vulns, lanes, width, nan) ==
    IF Len(lanes) = 0
    THEN [k \in 1 .. Len(vulns) |-> obstacleFor(k - 1, vulns, makeLanes, width, nan)]
    ELSE [k \in 1 .. Len(vulns) |-> obstacleFor(k - 1, vulns, lanes, width, nan)]

generateObstacles(vulns, lanes, width, nan) ==
    IF Len(lanes) = 0 THEN <<>>
    ELSE [k \in 1 .. Len(vulns) |-> obstacleFor(k - 1, vulns, lanes, width, nan)]

---------------------------------------------------------------------------
\* update.go: decorative items of a zero-vulnerability game.

symbols == <<"heart", "sparkles", "heart", "star", "heart", "sparkles">>

decorativeItemFor(i, width, frog) ==
    LET x == GoDiv(i * width, NumDecorativeItems) + (i % 3) - 1
        y0 == 1 + (i % (gameAreaHeight - 2))
        hit == y0 = frog.y /\ x >= frog.x - 2 /\ x <= frog.x + 2
        y1 == IF hit THEN (y0 + 3) % (gameAreaHeight - 1) ELSE y0
        y == IF hit /\ y1 = 0 THEN 1 ELSE y1
    IN [x |-> x, y |-> y,
        symbol |-> symbols[(i % Len(symbols)) + 1],
        floatX |-> x * DecXScale,
        floatY |-> y * DecYScale,
        speed |-> 3 + (i % 3) * 2]

initializeDecorativeItems(width, frog) ==
    [k \in 1 .. NumDecorativeItems |-> decorativeItemFor(k - 1, width, frog)]

---------------------------------------------------------------------------
\* model.go: the Model.

NewModel ==
    [state |-> stateLoading,
     frog |-> [x |-> 0, y |-> 0],
     obstacles |-> <<>>,
     lanes |-> <<>>,
     gameStartTime |-> NoTime,
     totalVulns |-> 0,
     collisionCVE |-> "",
     collisionMsg |-> <<>>,
     collisionObs |-> <<>>,
     width |-> DefaultWidth,
     height |-> DefaultHeight,
     lastUpdate |-> 0,
     hasMoved |-> FALSE,
     firstMoveTime |-> NoTime,
     isZeroVulnGame |-> FALSE,
     decorativeItems |-> <<>>,
     loadedVulns |-> <<>>]

\* What a handler returns: the new Model and a command ("nil", "tick", "Quit").
Ret(mod, cmd) == [m |-> mod, cmd |-> cmd]

---------------------------------------------------------------------------
\* update.go: game start, collision, messages.

\* startGame with a fault: an empty list is not told from any other.
startGameUndecorated(mod, vulns, t, nan) ==
    LET frog == [x |-> GoDiv(mod.width, 2), y |-> gameAreaHeight - 1]
        lanes == makeLanes
    IN [mod EXCEPT
          !.state = statePlaying,
          !.gameStartTime = t,
          !.totalVulns = Len(vulns),
          !.frog = frog,
          !.lanes = lanes,
          !.obstacles = generateObstacles(vulns, lanes, mod.width, nan),
          !.lastUpdate = t]

\* startGame with a fault: a game without vulnerabilities is won at once.
startGameInstantWin(mod, vulns, t, nan) ==
    LET frog == [x |-> GoDiv(mod.width, 2), y |-> gameAreaHeight - 1]
        lanes == makeLanes
        zero == Len(vulns) = 0
    IN [mod EXCEPT
          !.state = IF zero THEN stateVictory ELSE statePlaying,
          !.gameStartTime = t,
          !.totalVulns = Len(vulns),
          !.frog = frog,
          !.lanes = lanes,
          !.obstacles = generateObstacles(vulns, lanes, mod.width, nan),
          !.isZeroVulnGame = IF zero THEN TRUE ELSE mod.isZeroVulnGame,
          !.decorativeItems = IF zero
                              THEN initializeDecorativeItems(mod.width, frog)
                              ELSE mod.decorativeItems,
          !.lastUpdate = t]

\* startGame with a fault: the time of the last update is left as it was.
startGameKeepingLastUpdate(mod, vulns, t, nan) ==
    LET frog == [x |-> GoDiv(mod.width, 2), y |-> gameAreaHeight - 1]
        lanes == makeLanes
        zero == Len(vulns) = 0
    IN [mod EXCEPT
          !.state = statePlaying,
          !.gameStartTime = t,
          !.totalVulns = Len(vulns),
          !.frog = frog,
          !.lanes = lanes,
          !.obstacles = generateObstacles(vulns, lanes, mod.width, nan),
          !.isZeroVulnGame = IF zero THEN TRUE ELSE mod.isZeroVulnGame,
          !.decorativeItems = IF zero
                              THEN initializeDecorativeItems(mod.width, frog)
                              ELSE mod.decorativeItems]

startGame(mod, vulns, t, nan) ==
    LET frog == [x |-> GoDiv(mod.width, 2), y |-> gameAreaHeight - 1]
        lanes == makeLanes
        zero == Len(vulns) = 0
    IN [mod EXCEPT
          !.state = statePlaying,
          !.gameStartTime = t,
          !.totalVulns = Len(vulns),
          !.frog = frog,
          !.lanes = lanes,
          !.obstacles = generateObstacles(vulns, lanes, mod.width, nan),
          !.isZeroVulnGame = IF zero THEN TRUE ELSE mod.isZeroVulnGame,
          !.decorativeItems = IF zero
                              THEN initializeDecorativeItems(mod.width, frog)
                              ELSE mod.decorativeItems,
          !.lastUpdate = t]

\* restartGame with a fault: a fresh Model, which is loading again.
restartGameReloading(mod, t, nan) ==
    Ret([NewModel EXCEPT !.width = mod.width, !.height = mod.height], "nil")

\* restartGame with a fault: the cached list is reset with the rest.
restartGameForgetting(mod, t, nan) ==
    Ret(startGame([mod EXCEPT !.hasMoved = FALSE, !.collisionCVE = "",
                              !.collisionMsg = <<>>, !.collisionObs = <<>>,
                              !.decorativeItems = <<>>, !.isZeroVulnGame = FALSE,
                              !.loadedVulns = <<>>],
                  <<>>, t, nan),
        "tick")

\* restartGame with a fault: the obstacles stay where the last game left them.
restartGameKeepingField(mod, t, nan) ==
    LET reset == [mod EXCEPT !.hasMoved = FALSE, !.collisionCVE = "",
                             !.collisionMsg = <<>>, !.collisionObs = <<>>,
                             !.decorativeItems = <<>>, !.isZeroVulnGame = FALSE]
    IN Ret([startGame(reset, reset.loadedVulns, t, nan)
              EXCEPT !.obstacles = mod.obstacles],
           "tick")

\* restartGame with a fault: the collision of the last game is kept.
restartGameKeepingRecord(mod, t, nan) ==
    LET reset == [mod EXCEPT !.state = statePlaying, !.hasMoved = FALSE,
                             !.decorativeItems = <<>>, !.isZeroVulnGame = FALSE,
                             !.lastUpdate = t]
    IN Ret(startGame(reset, reset.loadedVulns, t, nan), "tick")

restartGame(mod, t, nan) ==
    LET reset == [mod EXCEPT
                    !.state = statePlaying,
                    !.hasMoved = FALSE,
                    !.collisionCVE = "",
                    !.collisionMsg = <<>>,
                    !.collisionObs = <<>>,
                    !.decorativeItems = <<>>,
                    !.isZeroVulnGame = FALSE,
                    !.lastUpdate = t]
    IN Ret(startGame(reset, reset.loadedVulns, t, nan), "tick")

\* checkCollision with a fault: the cell after the obstacle's last counts.
checkCollisionInclusive(frog, obs) ==
    IF frog.y # obs.pos.y THEN FALSE
    ELSE frog.x >= obs.pos.x /\ frog.x <= obs.pos.x + obs.width

\* checkCollision with a fault: the rows are not compared.
checkCollisionAnyRow(frog, obs) ==
    frog.x >= obs.pos.x /\ frog.x < obs.pos.x + obs.width

checkCollision(frog, obs) ==
    IF frog.y # obs.pos.y THEN FALSE
    ELSE frog.x >= obs.pos.x /\ frog.x < obs.pos.x + obs.width

\* Ids by prefix, for strings.HasPrefix.
CVEIds == {"CVE-1", "CVE-2", "CVE-4", "CVE-5", "CVE-6", "CVE-8", "CVE-9"}
GHSAIds == {"GHSA-2", "GHSA-3"}

getVulnerabilityURL(vulnID) ==
    IF vulnID \in CVEIds THEN "https://nvd.nist.gov/vuln/detail/"
    ELSE IF vulnID \in GHSAIds THEN "https://github.com/advisories/"
    ELSE ""

\* fmt's %.1f of a score kept in tenths
FormatScore(s) == ToString(s \div 10) \o "." \o ToString(s % 10)

\* FormatCollisionMessageParts with a fault: the score is printed whatever
\* it is.
FormatCollisionMessagePartsScored(obs) ==
    LET severity == IF obs.severityLabel # "" THEN obs.severityLabel
                    ELSE IF obs.severity >= 90 THEN "Critical"
                    ELSE IF obs.severity >= 70 THEN "High"
                    ELSE IF obs.severity >= 40 THEN "Medium"
                    ELSE "Low"
        url == getVulnerabilityURL(obs.cveID)
    IN [Prefix |-> <<"You were hit by ">>,
        VulnID |-> IF url # "" THEN <<"<link ", url, obs.cveID, ">", obs.cveID, "</link>">>
                   ELSE <<obs.cveID>>,
        Suffix |-> <<" (", severity, ", ", "CVSS ", FormatScore(obs.severity),
                     "). ", "Game over!">>]

\* A message is the sequence of the pieces of text it is made of.
FormatCollisionMessageParts(obs) ==
    LET severity == IF obs.severityLabel # "" THEN obs.severityLabel
                    ELSE IF obs.severity >= 90 THEN "Critical"
                    ELSE IF obs.severity >= 70 THEN "High"
                    ELSE IF obs.severity >= 40 THEN "Medium"
                    ELSE "Low"
        url == getVulnerabilityURL(obs.cveID)
    IN [Prefix |-> <<"You were hit by ">>,
        VulnID |-> IF url # "" THEN <<"<link ", url, obs.cveID, ">", obs.cveID, "</link>">>
                   ELSE <<obs.cveID>>,
        Suffix |-> IF obs.severity > 0
                   THEN <<" (", severity, ", ", "CVSS ", FormatScore(obs.severity),
                          "). ", "Game over!">>
                   ELSE <<" (", severity, "). ", "Game over!">>]

formatCollisionMessage(obs) ==
    LET parts == FormatCollisionMessageParts(obs)
    IN parts.Prefix \o parts.VulnID \o parts.Suffix

---------------------------------------------------------------------------
\* update.go: the physics step.

\* moveObstacle with a fault: a fixed step per tick, whatever the delta.
moveObstaclePerTick(obs, delta, width) ==
    LET floatX == FAdd(obs.floatX, obs.speed)
        posX == IntOf(floatX)
    IN IF posX < -obs.width - MarginCols
       THEN [obs EXCEPT !.floatX = Float64(width + MarginCols),
                        !.pos.x = width + MarginCols]
       ELSE IF posX > width + MarginCols
       THEN [obs EXCEPT !.floatX = Float64(-obs.width - MarginCols),
                        !.pos.x = -obs.width - MarginCols]
       ELSE [obs EXCEPT !.floatX = floatX, !.pos.x = posX]

\* moveObstacle with a fault: a wrap moves the obstacle by the span of the
\* screen and its margins, keeping the overshoot.
moveObstacleKeepingOvershoot(obs, delta, width) ==
    LET movement == obs.speed * delta
        floatX == FAdd(obs.floatX, movement)
        posX == IntOf(floatX)
        span == (width + 2 * MarginCols + obs.width) * Scale
    IN IF posX < -obs.width - MarginCols
       THEN [obs EXCEPT !.floatX = FAdd(floatX, span),
                        !.pos.x = IntOf(FAdd(floatX, span))]
       ELSE IF posX > width + MarginCols
       THEN [obs EXCEPT !.floatX = FAdd(floatX, -span),
                        !.pos.x = IntOf(FAdd(floatX, -span))]
       ELSE [obs EXCEPT !.floatX = floatX, !.pos.x = posX]

\* moveObstacle with a fault: an obstacle that passes a margin turns round
\* instead of being moved to the opposite margin.
moveObstacleBouncing(obs, delta, width) ==
    LET movement == obs.speed * delta
        floatX == FAdd(obs.floatX, movement)
        posX == IntOf(floatX)
    IN IF posX < -obs.width - MarginCols \/ posX > width + MarginCols
       THEN [obs EXCEPT !.speed = -obs.speed]
       ELSE [obs EXCEPT !.floatX = floatX, !.pos.x = posX]

\* One obstacle advanced by delta and wrapped against the viewport width.
moveObstacle(obs, delta, width) ==
    LET movement == obs.speed * delta
        floatX == FAdd(obs.floatX, movement)
        posX == IntOf(floatX)
    IN IF posX < -obs.width - MarginCols
       THEN [obs EXCEPT !.floatX = Float64(width + MarginCols),
                        !.pos.x = width + MarginCols]
       ELSE IF posX > width + MarginCols
       THEN [obs EXCEPT !.floatX = Float64(-obs.width - MarginCols),
                        !.pos.x = -obs.width - MarginCols]
       ELSE [obs EXCEPT !.floatX = floatX, !.pos.x = posX]

\* Whether moveObstacle takes one of its two wrap branches.
wraps(obs, delta, width) ==
    LET posX == IntOf(FAdd(obs.floatX, obs.speed * delta))
    IN posX < -obs.width - MarginCols \/ posX > width + MarginCols

\* 50 * sin(i), i = 0 .. 11, rounded: math.Sin(t + i) * 0.5 in hundredths at
\* t = 0; at t = pi every value changes sign.
halfSin == <<0, 42, 45, 7, -38, -48, -14, 33, 49, 21, -27, -50>>

\* Decorative item i (from 0) advanced by delta; phase is the sign of the
\* sampled sin.
moveDecorativeItem(item, i, delta, width, phase) ==
    LET floatX == item.floatX + item.speed * delta
        bobAmount == phase * halfSin[i + 1]
        floatY == item.floatY + bobAmount * delta
        x == Trunc(floatX, DecXScale)
        y == Trunc(floatY, DecYScale)
    IN IF x > width + 2
       THEN [item EXCEPT !.floatX = -2 * DecXScale, !.x = -2,
                         !.floatY = floatY, !.y = y]
       ELSE [item EXCEPT !.floatX = floatX, !.x = x,
                         !.floatY = floatY, !.y = y]

\* firstHit with a fault: the last obstacle the frog collides with.
lastHit(frog, obstacles) ==
    LET hits == {i \in DOMAIN obstacles : checkCollision(frog, obstacles[i])}
    IN IF hits = {} THEN 0
       ELSE CHOOSE i \in hits : \A j \in hits : i >= j

\* The index of the first obstacle the frog collides with, 0 when none.
firstHit(frog, obstacles) ==
    LET hits == {i \in DOMAIN obstacles : checkCollision(frog, obstacles[i])}
    IN IF hits = {} THEN 0
       ELSE CHOOSE i \in hits : \A j \in hits : i <= j

\* updateGame with a fault: a decorative item in the frog's cell is a hit.
updateGameHittingDecorations(mod, t, phase) ==
    LET delta == t - mod.lastUpdate
        moved == [i \in DOMAIN mod.obstacles |->
                    moveObstacle(mod.obstacles[i], delta, mod.width)]
        items == IF mod.isZeroVulnGame
                 THEN [i \in DOMAIN mod.decorativeItems |->
                         moveDecorativeItem(mod.decorativeItems[i], i - 1, delta,
                                            mod.width, phase)]
                 ELSE mod.decorativeItems
        after == [mod EXCEPT !.lastUpdate = t,
                             !.obstacles = moved,
                             !.decorativeItems = items]
        hit == firstHit(after.frog, moved)
        touched == \E i \in DOMAIN items :
                      items[i].x = after.frog.x /\ items[i].y = after.frog.y
    IN IF hit # 0
       THEN [after EXCEPT !.state = stateGameOver,
                          !.collisionCVE = moved[hit].cveID,
                          !.collisionMsg = formatCollisionMessage(moved[hit]),
                          !.collisionObs = <<moved[hit]>>]
       ELSE IF touched THEN [after EXCEPT !.state = stateGameOver]
       ELSE after

\* updateGame with a fault: the frog is tested against the obstacles where
\* the last tick left them, and they are advanced afterwards.
updateGameTestingFirst(mod, t, phase) ==
    LET delta == t - mod.lastUpdate
        moved == [i \in DOMAIN mod.obstacles |->
                    moveObstacle(mod.obstacles[i], delta, mod.width)]
        items == IF mod.isZeroVulnGame
                 THEN [i \in DOMAIN mod.decorativeItems |->
                         moveDecorativeItem(mod.decorativeItems[i], i - 1, delta,
                                            mod.width, phase)]
                 ELSE mod.decorativeItems
        after == [mod EXCEPT !.lastUpdate = t,
                             !.obstacles = moved,
                             !.decorativeItems = items]
        hit == firstHit(mod.frog, mod.obstacles)
    IN IF hit = 0 THEN after
       ELSE [after EXCEPT !.state = stateGameOver,
                          !.collisionCVE = mod.obstacles[hit].cveID,
                          !.collisionMsg = formatCollisionMessage(mod.obstacles[hit]),
                          !.collisionObs = <<mod.obstacles[hit]>>]

updateGame(mod, t, phase) ==
    LET delta == t - mod.lastUpdate
        moved == [i \in DOMAIN mod.obstacles |->
                    moveObstacle(mod.obstacles[i], delta, mod.width)]
        items == IF mod.isZeroVulnGame
                 THEN [i \in DOMAIN mod.decorativeItems |->
                         moveDecorativeItem(mod.decorativeItems[i], i - 1, delta,
                                            mod.width, phase)]
                 ELSE mod.decorativeItems
        after == [mod EXCEPT !.lastUpdate = t,
                             !.obstacles = moved,
                             !.decorativeItems = items]
        hit == firstHit(after.frog, moved)
    IN IF hit = 0 THEN after
       ELSE [after EXCEPT !.state = stateGameOver,
                          !.collisionCVE = moved[hit].cveID,
                          !.collisionMsg = formatCollisionMessage(moved[hit]),
                          !.collisionObs = <<moved[hit]>>]

---------------------------------------------------------------------------
\* update.go: key presses.

\* moveFrog with a fault: an up key covers the empty row between two lanes.
moveFrogLeaping(mod, key) ==
    LET f == mod.frog
    IN IF key \in UpKeys /\ f.y > 0
       THEN [f EXCEPT !.y = IF f.y % 2 = 0 /\ f.y > 4 THEN f.y - 2 ELSE f.y - 1]
       ELSE IF key \in DownKeys /\ f.y < gameAreaHeight - 1 THEN [f EXCEPT !.y = f.y + 1]
       ELSE IF key \in LeftKeys /\ f.x > 0 THEN [f EXCEPT !.x = f.x - 1]
       ELSE IF key \in RightKeys /\ f.x < mod.width - 1 THEN [f EXCEPT !.x = f.x + 1]
       ELSE f

\* moveFrog with a fault: the viewport's height, less the two header rows,
\* bounds a down key.
moveFrogViewportHeight(mod, key) ==
    LET f == mod.frog
    IN IF key \in UpKeys /\ f.y > 0 THEN [f EXCEPT !.y = f.y - 1]
       ELSE IF key \in DownKeys /\ f.y < (mod.height - 2) - 1 THEN [f EXCEPT !.y = f.y + 1]
       ELSE IF key \in LeftKeys /\ f.x > 0 THEN [f EXCEPT !.x = f.x - 1]
       ELSE IF key \in RightKeys /\ f.x < mod.width - 1 THEN [f EXCEPT !.x = f.x + 1]
       ELSE f

\* The frog after a movement key.
moveFrog(mod, key) ==
    LET f == mod.frog
    IN IF key \in UpKeys /\ f.y > 0 THEN [f EXCEPT !.y = f.y - 1]
       ELSE IF key \in DownKeys /\ f.y < gameAreaHeight - 1 THEN [f EXCEPT !.y = f.y + 1]
       ELSE IF key \in LeftKeys /\ f.x > 0 THEN [f EXCEPT !.x = f.x - 1]
       ELSE IF key \in RightKeys /\ f.x < mod.width - 1 THEN [f EXCEPT !.x = f.x + 1]
       ELSE f

\* the win condition, with a fault: met one row early
reachedFinishEarly(frog) == frog.y <= 1

\* the win condition, with a fault: met one row beyond the top row
reachedFinishAboveTop(frog) == frog.y < 0

\* the win condition
reachedFinish(frog) == frog.y = 0

\* handleKeyPress with a fault: outside Playing a quit key does nothing.
handleKeyPressQuitInPlaying(mod, key, t, nan) ==
    IF mod.state # statePlaying
    THEN IF key \in RestartKeys
            /\ (mod.state = stateGameOver \/ mod.state = stateVictory)
         THEN restartGame(mod, t, nan)
         ELSE Ret(mod, "nil")
    ELSE IF key \in QuitKeys THEN Ret(mod, "Quit")
    ELSE LET f == moveFrog(mod, key)
             movedNow == f # mod.frog
             first == movedNow /\ ~mod.hasMoved
             after == [mod EXCEPT
                         !.frog = f,
                         !.hasMoved = IF first THEN TRUE ELSE mod.hasMoved,
                         !.firstMoveTime = IF first THEN t ELSE mod.firstMoveTime]
         IN IF reachedFinish(after.frog)
            THEN Ret([after EXCEPT !.state = stateVictory], "nil")
            ELSE Ret(after, "nil")

\* handleKeyPress with a fault: every movement records its time.
handleKeyPressStampingEveryMove(mod, key, t, nan) ==
    IF mod.state # statePlaying
    THEN IF key \in QuitKeys THEN Ret(mod, "Quit")
         ELSE IF key \in RestartKeys
                 /\ (mod.state = stateGameOver \/ mod.state = stateVictory)
         THEN restartGame(mod, t, nan)
         ELSE Ret(mod, "nil")
    ELSE IF key \in QuitKeys THEN Ret(mod, "Quit")
    ELSE LET f == moveFrog(mod, key)
             movedNow == f # mod.frog
             after == [mod EXCEPT
                         !.frog = f,
                         !.hasMoved = IF movedNow THEN TRUE ELSE mod.hasMoved,
                         !.firstMoveTime = IF movedNow THEN t ELSE mod.firstMoveTime]
         IN IF reachedFinish(after.frog)
            THEN Ret([after EXCEPT !.state = stateVictory], "nil")
            ELSE Ret(after, "nil")

handleKeyPress(mod, key, t, nan) ==
    IF mod.state # statePlaying
    THEN IF key \in QuitKeys THEN Ret(mod, "Quit")
         ELSE IF key \in RestartKeys
                 /\ (mod.state = stateGameOver \/ mod.state = stateVictory)
         THEN restartGame(mod, t, nan)
         ELSE Ret(mod, "nil")
    ELSE IF key \in QuitKeys THEN Ret(mod, "Quit")
    ELSE LET f == moveFrog(mod, key)
             movedNow == f # mod.frog
             first == movedNow /\ ~mod.hasMoved
             after == [mod EXCEPT
                         !.frog = f,
                         !.hasMoved = IF first THEN TRUE ELSE mod.hasMoved,
                         !.firstMoveTime = IF first THEN t ELSE mod.firstMoveTime]
         IN IF reachedFinish(after.frog)
            THEN Ret([after EXCEPT !.state = stateVictory], "nil")
            ELSE Ret(after, "nil")

---------------------------------------------------------------------------
\* model.go: Update, one operator per message type.

UpdateKey(mod, key, t, nan) == handleKeyPress(mod, key, t, nan)

\* Update(tea.WindowSizeMsg) with a fault: the dimensions are not validated.
UpdateWindowSizeUnchecked(mod, w, h) ==
    Ret([mod EXCEPT !.width = w, !.height = h], "nil")

UpdateWindowSize(mod, w, h) ==
    IF w > 0 /\ h > 0
    THEN Ret([mod EXCEPT !.width = w, !.height = h], "nil")
    ELSE Ret(mod, "nil")

UpdateLoaded(mod, vulns, t, nan) ==
    Ret(startGame([mod EXCEPT !.loadedVulns = vulns], vulns, t, nan), "tick")

UpdateError(mod, err) ==
    Ret([mod EXCEPT !.state = stateGameOver,
                    !.collisionMsg = <<"Failed to load vulnerabilities: ", err>>],
        "Quit")

\* UpdateTick with a fault: the next tick is armed in every phase.
UpdateTickAlwaysArming(mod, t, phase) ==
    IF mod.state = statePlaying THEN Ret(updateGame(mod, t, phase), "tick")
    ELSE Ret(mod, "tick")

\* UpdateTick with a fault: the next tick is armed in Playing only.
UpdateTickPlayingOnly(mod, t, phase) ==
    IF mod.state = statePlaying THEN Ret(updateGame(mod, t, phase), "tick")
    ELSE Ret(mod, "nil")

UpdateTick(mod, t, phase) ==
    IF mod.state = statePlaying THEN Ret(updateGame(mod, t, phase), "tick")
    ELSE IF mod.state = stateLoading THEN Ret(mod, "tick")
    ELSE Ret(mod, "nil")

---------------------------------------------------------------------------
\* The session: the bubbletea program around the Model.

NoMsg == [kind |-> "none", vulns |-> <<>>, err |-> ""]
LoadRunning == [kind |-> "running", vulns |-> <<>>, err |-> ""]
LoadedMsg(vulns) == [kind |-> "vulnerabilitiesLoadedMsg", vulns |-> vulns, err |-> ""]
ErrorMsg(err) == [kind |-> "vulnerabilityErrorMsg", vulns |-> <<>>, err |-> err]

\* The values int(NaN) may take when a field is generated from vulns.
NaNValues(vulns) ==
    IF intOfNaN # <<>> THEN {intOfNaN[1]}
    ELSE IF usesIntOfNaN(vulns, makeLanes) THEN IntOfNaNChoices
    ELSE {0}

\* int(NaN) is fixed by the first generation that evaluates it.
NaNAfter(mod, nan) ==
    IF intOfNaN = <<>> /\ usesIntOfNaN(mod.loadedVulns, mod.lanes) THEN <<nan>>
    ELSE intOfNaN

NoField == [obstacles |-> <<>>, width |-> 0]

newTrack(obstacles) ==
    [i \in DOMAIN obstacles |-> [x0 |-> obstacles[i].floatX, wrapped |-> FALSE]]

\* The effect of a returned command on the ticks in flight: a tick command
\* arms one more.
Issue(cmd, consumed) ==
    ticks' = ticks - consumed + (IF cmd = "tick" THEN 1 ELSE 0)

\* The effect of a returned command on the quit message: tea.Quit sends the
\* message that ends the event loop when it is delivered; until then the
\* events already on their way are handled.  The delivery is the end of the
\* behaviour, which takes no step after it.
Sends(cmd) ==
    quitMsg' = IF cmd = "Quit" THEN "sent" ELSE quitMsg

\* serve: the SSH sessions the server is followed with.
SessionIds == {1, 2}

\* An SSH session that has not connected.
NoSession == [connected |-> FALSE]

\* NewModel, then Program.Run: Init() has issued the load command and one tick.
Init ==
    /\ m = NewModel
    /\ now = 0
    /\ loadMsg = LoadRunning
    /\ ticks = 1
    /\ intOfNaN = <<>>
    /\ providerCalls = 0
    /\ sideKeys = 0
    /\ loadField = NoField
    /\ track = newTrack(<<>>)
    /\ quitMsg = "none"
    /\ sessions = [s \in SessionIds |-> NoSession]

\* The load command: GetVulnerabilities returns a list.
ProviderReturns(vulns) ==
    /\ loadMsg.kind = "running"
    /\ loadMsg' = LoadedMsg(vulns)
    /\ providerCalls' = providerCalls + 1
    /\ UNCHANGED <<m, now, ticks, intOfNaN, sideKeys, loadField, track, quitMsg,
                   sessions>>

\* The load command: GetVulnerabilities returns an error.
ProviderFails(err) ==
    /\ loadMsg.kind = "running"
    /\ loadMsg' = ErrorMsg(err)
    /\ providerCalls' = providerCalls + 1
    /\ UNCHANGED <<m, now, ticks, intOfNaN, sideKeys, loadField, track, quitMsg,
                   sessions>>

\* Update(vulnerabilitiesLoadedMsg)
LoadCompleted ==
    /\ loadMsg.kind = "vulnerabilitiesLoadedMsg"
    /\ \E nan \in NaNValues(loadMsg.vulns) :
          LET r == UpdateLoaded(m, loadMsg.vulns, 0, nan)
          IN /\ m' = r.m
             /\ Issue(r.cmd, 0)
             /\ intOfNaN' = NaNAfter(r.m, nan)
             /\ loadField' = [obstacles |-> r.m.obstacles, width |-> m.width]
             /\ track' = newTrack(r.m.obstacles)
    /\ loadMsg' = NoMsg
    /\ sideKeys' = 0
    /\ now' = 0
    /\ UNCHANGED <<providerCalls, quitMsg, sessions>>

\* Update(vulnerabilityErrorMsg), the quit message aside
ErrorStep ==
    /\ loadMsg.kind = "vulnerabilityErrorMsg"
    /\ LET r == UpdateError(m, loadMsg.err)
       IN /\ m' = r.m
          /\ Issue(r.cmd, 0)
          /\ loadField' = [obstacles |-> r.m.obstacles, width |-> m.width]
    /\ loadMsg' = NoMsg
    /\ UNCHANGED <<now, intOfNaN, providerCalls, sideKeys, track, sessions>>

\* Update(vulnerabilityErrorMsg)
LoadFailed == ErrorStep /\ UNCHANGED quitMsg

\* Whether this key press restarts the game.
Restarts(key) ==
    key \in RestartKeys /\ m.state \in {stateGameOver, stateVictory}

\* The Model of a game that starts: the clock is counted from this start, and
\* the first-move time of a game before it is a time before it.
Rebased(mod) ==
    [mod EXCEPT !.firstMoveTime = IF @ = NoTime THEN NoTime ELSE EarlierGame]

\* The Model without the time of the first move, which only the view reads.
Untimed(mod) == [mod EXCEPT !.firstMoveTime = NoTime]

\* Update(tea.KeyMsg), the quit message aside; the time of the first move is
\* kept when timed, and left out of the state otherwise.
KeyStep(key, timed) ==
    /\ (key \in LeftKeys \cup RightKeys /\ m.state = statePlaying)
          => sideKeys < MaxSideKeys
    /\ Restarts(key) => ticks < MaxTicks
    /\ \E nan \in (IF Restarts(key) THEN NaNValues(m.loadedVulns) ELSE {0}) :
          LET r == UpdateKey(m, key, IF Restarts(key) THEN 0 ELSE now, nan)
          IN /\ m' = IF ~timed THEN Untimed(r.m)
                      ELSE IF Restarts(key) THEN Rebased(r.m)
                      ELSE r.m
             /\ Issue(r.cmd, 0)
             /\ intOfNaN' = IF Restarts(key) THEN NaNAfter(r.m, nan) ELSE intOfNaN
             /\ track' = IF Restarts(key) THEN newTrack(r.m.obstacles) ELSE track
    /\ sideKeys' = IF Restarts(key) THEN 0
                   ELSE IF key \in LeftKeys \cup RightKeys /\ m.state = statePlaying
                   THEN sideKeys + 1
                   ELSE sideKeys
    /\ now' = IF Restarts(key) THEN 0 ELSE now
    /\ UNCHANGED <<loadMsg, providerCalls, loadField, sessions>>

\* Update(tea.KeyMsg)
KeyMsg(key) == KeyStep(key, FALSE) /\ UNCHANGED quitMsg

\* Update(tea.WindowSizeMsg)
WindowSizeMsg(w, h) ==
    /\ LET r == UpdateWindowSize(m, w, h)
       IN m' = r.m /\ Issue(r.cmd, 0)
    /\ UNCHANGED <<now, loadMsg, intOfNaN, providerCalls, sideKeys, loadField, track,
                   quitMsg, sessions>>

\* What time.Now() may return to updateGame: the clock is monotonic, and it
\* is counted from the start of the current game, the handlers using only
\* the differences between a reading and the times the game start recorded
\* (the one time that outlives a game, firstMoveTime, is Rebased).
ClockReadings == IF m.state = statePlaying THEN now .. MaxTime ELSE {now}

\* What the sampled sin of the decorative bob may be.
BobReadings == IF m.state = statePlaying /\ m.isZeroVulnGame THEN BobPhases ELSE {1}

\* Update(tickMsg): one tick in flight is delivered.
Tick ==
    /\ ticks > 0
    /\ \E t \in ClockReadings, phase \in BobReadings :
          LET r == UpdateTick(m, t, phase)
          IN /\ m' = r.m
             /\ Issue(r.cmd, 1)
             /\ now' = t
             /\ track' = IF m.state = statePlaying
                         THEN [i \in DOMAIN track |->
                                 [track[i] EXCEPT !.wrapped =
                                     @ \/ wraps(m.obstacles[i], t - m.lastUpdate,
                                                m.width)]]
                         ELSE track
    /\ UNCHANGED <<loadMsg, intOfNaN, providerCalls, sideKeys, loadField, quitMsg,
                   sessions>>

Next ==
    \/ \E vulns \in VulnLists : ProviderReturns(vulns)
    \/ \E err \in ProviderErrors : ProviderFails(err)
    \/ LoadCompleted
    \/ LoadFailed
    \/ \E key \in Keys : KeyMsg(key)
    \/ \E size \in Sizes : WindowSizeMsg(size[1], size[2])
    \/ Tick

Spec == Init /\ [][Next]_vars

\* The session with its timers: tea.Tick delivers the tick it armed after
\* 1/30 s, whatever else happens; the player need not press any key.
SpecTicking == Spec /\ WF_vars(Tick)

---------------------------------------------------------------------------
\* The session with the quit message followed.

\* Update(vulnerabilityErrorMsg), and the command it returns
LoadFailedQuitting == ErrorStep /\ Sends(UpdateError(m, loadMsg.err).cmd)

\* Update(tea.KeyMsg), and the command it returns
KeyMsgQuitting(key) == KeyStep(key, FALSE) /\ Sends(UpdateKey(m, key, now, 0).cmd)

NextQuit ==
    \/ \E vulns \in VulnLists : ProviderReturns(vulns)
    \/ \E err \in ProviderErrors : ProviderFails(err)
    \/ LoadCompleted
    \/ LoadFailedQuitting
    \/ \E key \in Keys : KeyMsgQuitting(key)
    \/ \E size \in Sizes : WindowSizeMsg(size[1], size[2])
    \/ Tick

SpecQuit == Init /\ [][NextQuit]_vars

---------------------------------------------------------------------------
\* The session with the time of the first move followed.

\* Update(tea.KeyMsg), firstMoveTime kept
KeyMsgTimed(key) == KeyStep(key, TRUE) /\ UNCHANGED quitMsg

NextFirstMove ==
    \/ \E vulns \in VulnLists : ProviderReturns(vulns)
    \/ \E err \in ProviderErrors : ProviderFails(err)
    \/ LoadCompleted
    \/ LoadFailed
    \/ \E key \in Keys : KeyMsgTimed(key)
    \/ \E size \in Sizes : WindowSizeMsg(size[1], size[2])
    \/ Tick

SpecFirstMove == Init /\ [][NextFirstMove]_vars

---------------------------------------------------------------------------
\* The session on the wall clock: now is the time since NewModel, it is not
\* counted again from a game start, and it passes in every phase.  Every
\* handler that calls time.Now() reads a time that is not before the last
\* one read.

\* What time.Now() may return.
WallReadings == now .. MaxTime

\* Update(vulnerabilitiesLoadedMsg) at a time of the wall clock
WallLoadCompleted ==
    /\ loadMsg.kind = "vulnerabilitiesLoadedMsg"
    /\ \E t \in WallReadings, nan \in NaNValues(loadMsg.vulns) :
          LET r == UpdateLoaded(m, loadMsg.vulns, t, nan)
          IN /\ m' = r.m
             /\ Issue(r.cmd, 0)
             /\ intOfNaN' = NaNAfter(r.m, nan)
             /\ loadField' = [obstacles |-> r.m.obstacles, width |-> m.width]
             /\ track' = newTrack(r.m.obstacles)
             /\ now' = t
    /\ loadMsg' = NoMsg
    /\ sideKeys' = 0
    /\ UNCHANGED <<providerCalls, quitMsg, sessions>>

\* Update(tea.KeyMsg) at a time of the wall clock
WallKeyMsg(key) ==
    /\ (key \in LeftKeys \cup RightKeys /\ m.state = statePlaying)
          => sideKeys < MaxSideKeys
    /\ Restarts(key) => ticks < MaxTicks
    /\ \E t \in (IF Restarts(key) THEN WallReadings ELSE {now}),
          nan \in (IF Restarts(key) THEN NaNValues(m.loadedVulns) ELSE {0}) :
          LET r == UpdateKey(m, key, t, nan)
          IN /\ m' = Untimed(r.m)
             /\ Issue(r.cmd, 0)
             /\ intOfNaN' = IF Restarts(key) THEN NaNAfter(r.m, nan) ELSE intOfNaN
             /\ track' = IF Restarts(key) THEN newTrack(r.m.obstacles) ELSE track
             /\ now' = t
    /\ sideKeys' = IF Restarts(key) THEN 0
                   ELSE IF key \in LeftKeys \cup RightKeys /\ m.state = statePlaying
                   THEN sideKeys + 1
                   ELSE sideKeys
    /\ UNCHANGED <<loadMsg, providerCalls, loadField, quitMsg, sessions>>

\* Update(tickMsg) at a time of the wall clock: one tick in flight is
\* delivered, in whatever phase.
WallTick ==
    /\ ticks > 0
    /\ \E t \in WallReadings, phase \in BobReadings :
          LET r == UpdateTick(m, t, phase)
          IN /\ m' = r.m
             /\ Issue(r.cmd, 1)
             /\ now' = t
             /\ track' = IF m.state = statePlaying
                         THEN [i \in DOMAIN track |->
                                 [track[i] EXCEPT !.wrapped =
                                     @ \/ wraps(m.obstacles[i], t - m.lastUpdate,
                                                m.width)]]
                         ELSE track
    /\ UNCHANGED <<loadMsg, intOfNaN, providerCalls, sideKeys, loadField, quitMsg,
                   sessions>>

NextWallClock ==
    \/ \E vulns \in VulnLists : ProviderReturns(vulns)
    \/ \E err \in ProviderErrors : ProviderFails(err)
    \/ WallLoadCompleted
    \/ LoadFailed
    \/ \E key \in Keys : WallKeyMsg(key)
    \/ \E size \in Sizes : WindowSizeMsg(size[1], size[2])
    \/ WallTick

SpecWallClock == Init /\ [][NextWallClock]_vars

---------------------------------------------------------------------------
\* serve: the SSH server, one bubbletea program per session with a PTY.  Each
\* program is followed as the session of Spec is, by its Model, its load
\* command, its ticks in flight and its clock.

\* What the providers of the server's sessions return: no record, and more
\* records than lanes.
SessionLists == {L \in VulnLists : ~usesIntOfNaN(L, makeLanes)}

\* The keys a player of a session presses.
SessionKeys == {"up", "enter"}

\* teaHandler, tea.NewProgram and Program.Run: a Model of its own, Init()'s
\* load command and tick.
NewSession ==
    [connected |-> TRUE, m |-> NewModel, loadMsg |-> LoadRunning, ticks |-> 1,
     now |-> 0, keys |-> 0]

\* The programs with a fault: the Model is one package-level value, which
\* every connected session's program holds.
StoreShared(s, sess) ==
    [t \in SessionIds |->
        IF t = s THEN sess
        ELSE IF sessions[t].connected THEN [sessions[t] EXCEPT !.m = sess.m]
        ELSE sessions[t]]

\* The programs after session s's program took a step to sess.
Store(s, sess) == [sessions EXCEPT ![s] = sess]

\* The state of the program run from the command line, which the server
\* does not run.
cliVars == <<m, now, loadMsg, ticks, intOfNaN, providerCalls, sideKeys,
             loadField, track, quitMsg>>

\* The command a session's Update returned, on its ticks in flight.
Armed(n, cmd, consumed) == n - consumed + (IF cmd = "tick" THEN 1 ELSE 0)

\* customSessionHandler: a session with a PTY connects.
Connect(s) ==
    /\ ~sessions[s].connected
    /\ sessions' = Store(s, NewSession)
    /\ UNCHANGED cliVars

\* The load command of session s returns a list.
SessionProviderReturns(s, vulns) ==
    /\ sessions[s].connected
    /\ sessions[s].loadMsg.kind = "running"
    /\ sessions' = Store(s, [sessions[s] EXCEPT !.loadMsg = LoadedMsg(vulns)])
    /\ UNCHANGED cliVars

\* Update(vulnerabilitiesLoadedMsg) in session s
SessionLoadCompleted(s) ==
    /\ sessions[s].connected
    /\ sessions[s].loadMsg.kind = "vulnerabilitiesLoadedMsg"
    /\ LET sess == sessions[s]
           r == UpdateLoaded(sess.m, sess.loadMsg.vulns, 0, 0)
       IN sessions' = Store(s, [sess EXCEPT !.m = Untimed(r.m),
                                            !.loadMsg = NoMsg,
                                            !.ticks = Armed(@, r.cmd, 0),
                                            !.now = 0])
    /\ UNCHANGED cliVars

\* Update(tea.KeyMsg) in session s
SessionKeyMsg(s, key) ==
    /\ sessions[s].connected
    /\ sessions[s].keys < MaxSessionKeys
    /\ LET sess == sessions[s]
           restarts == key \in RestartKeys
                         /\ sess.m.state \in {stateGameOver, stateVictory}
           r == UpdateKey(sess.m, key, IF restarts THEN 0 ELSE sess.now, 0)
       IN /\ restarts => sess.ticks < MaxTicks
          /\ sessions' = Store(s, [sess EXCEPT !.m = Untimed(r.m),
                                               !.ticks = Armed(@, r.cmd, 0),
                                               !.now = IF restarts THEN 0 ELSE @,
                                               !.keys = IF r.m = sess.m THEN @ ELSE @ + 1])
    /\ UNCHANGED cliVars

\* Update(tea.WindowSizeMsg) in session s, sent by the handler's goroutine
SessionWindowSizeMsg(s, w, h) ==
    /\ sessions[s].connected
    /\ LET r == UpdateWindowSize(sessions[s].m, w, h)
       IN sessions' = Store(s, [sessions[s] EXCEPT !.m = r.m])
    /\ UNCHANGED cliVars

\* Update(tickMsg) in session s
SessionTick(s) ==
    /\ sessions[s].connected
    /\ sessions[s].ticks > 0
    /\ LET sess == sessions[s]
       IN \E t \in (IF sess.m.state = statePlaying THEN sess.now .. MaxTime
                    ELSE {sess.now}) :
             LET r == UpdateTick(sess.m, t, 1)
             IN sessions' = Store(s, [sess EXCEPT !.m = r.m,
                                                  !.ticks = Armed(@, r.cmd, 1),
                                                  !.now = t])
    /\ UNCHANGED cliVars

\* An event of session s is handled.
Delivered(s) ==
    \/ Connect(s)
    \/ \E vulns \in SessionLists : SessionProviderReturns(s, vulns)
    \/ SessionLoadCompleted(s)
    \/ \E key \in SessionKeys : SessionKeyMsg(s, key)
    \/ SessionWindowSizeMsg(s, 16, 10)
    \/ SessionTick(s)

NextSessions == \E s \in SessionIds : Delivered(s)

SpecSessions == Init /\ [][NextSessions]_vars

---------------------------------------------------------------------------
\* generateObstacles called on its own, as the package's tests call it: on a
\* Model whose lanes and width the caller has set, with a list.  loadMsg
\* holds the list, and whether the call has returned.

\* The lane lists: the first k of the eight lanes, k = 0 .. 8.
LaneConfigs == {SubSeq(makeLanes, 1, k) : k \in 0 .. Len(makeLanes)}

\* The widths of the Model.
GenerateWidths == {16, 40, DefaultWidth}

ReturnedMsg(vulns) == [kind |-> "returned", vulns |-> vulns, err |-> ""]

InitGenerate ==
    /\ \E lanes \in LaneConfigs, width \in GenerateWidths :
          m = [NewModel EXCEPT !.lanes = lanes, !.width = width]
    /\ \E vulns \in VulnLists : loadMsg = LoadedMsg(vulns)
    /\ now = 0
    /\ ticks = 0
    /\ intOfNaN = <<>>
    /\ providerCalls = 0
    /\ sideKeys = 0
    /\ loadField = NoField
    /\ track = newTrack(<<>>)
    /\ quitMsg = "none"
    /\ sessions = [s \in SessionIds |-> NoSession]

\* m.generateObstacles(vulns)
Generate ==
    /\ loadMsg.kind = "vulnerabilitiesLoadedMsg"
    /\ LET uses == usesIntOfNaN(loadMsg.vulns, m.lanes)
       IN \E nan \in (IF uses THEN IntOfNaNChoices ELSE {0}) :
             /\ m' = [m EXCEPT !.obstacles =
                          generateObstacles(loadMsg.vulns, m.lanes, m.width, nan)]
             /\ intOfNaN' = IF uses THEN <<nan>> ELSE intOfNaN
    /\ loadMsg' = ReturnedMsg(loadMsg.vulns)
    /\ UNCHANGED <<now, ticks, providerCalls, sideKeys, loadField, track, quitMsg,
                   sessions>>

NextGenerate == Generate

SpecGenerate == InitGenerate /\ [][NextGenerate]_vars

\* generateObstacles on the eight lanes of a game, by the number of records:
\* the placement depends on the number of records and on no record.

\* The largest number of records placed.
MaxCount == 24

\* A list of n records, over every branch of the severity mapping.
ListOfCount(n) ==
    LET nine == CHOOSE L \in VulnLists : Len(L) = 9
    IN [k \in 1 .. n |-> nine[((k - 1) % 9) + 1]]

InitPlacement ==
    /\ \E width \in GenerateWidths :
          m = [NewModel EXCEPT !.lanes = makeLanes, !.width = width]
    /\ \E n \in 0 .. MaxCount : loadMsg = LoadedMsg(ListOfCount(n))
    /\ now = 0
    /\ ticks = 0
    /\ intOfNaN = <<>>
    /\ providerCalls = 0
    /\ sideKeys = 0
    /\ loadField = NoField
    /\ track = newTrack(<<>>)
    /\ quitMsg = "none"
    /\ sessions = [s \in SessionIds |-> NoSession]

SpecPlacement == InitPlacement /\ [][NextGenerate]_vars

---------------------------------------------------------------------------
\* Properties.

\* The text is one of the pieces of the message, or is empty.
Contains(msg, text) == text = "" \/ \E i \in DOMAIN msg : msg[i] = text

\* A game has been restarted at a width other than the width of the load:
\* the left-moving obstacle of the second record starts elsewhere.
RestartedAfterResize ==
    /\ Len(track) > 1
    /\ track[2].x0 # loadField.obstacles[2].floatX

\* C1: once the load has completed, whatever ticks, movements, viewport
\* sizes and restarts followed, there is one obstacle per cached record:
\* as many obstacles as records, the i-th carrying the id, the score and the
\* label of the i-th record.
C1_OneObstaclePerRecord ==
    m.state # stateLoading =>
        /\ Len(m.obstacles) = Len(m.loadedVulns)
        /\ \A i \in DOMAIN m.obstacles :
              /\ m.obstacles[i].cveID = m.loadedVulns[i].ID
              /\ m.obstacles[i].severity = m.loadedVulns[i].CVSS
              /\ m.obstacles[i].severityLabel = m.loadedVulns[i].Severity

\* More records than lanes, in a game restarted after a resize, ticked and
\* moved in.
C1_Witness ==
    /\ m.state = statePlaying
    /\ Len(m.loadedVulns) > Len(m.lanes)
    /\ Len(m.obstacles) = Len(m.loadedVulns)
    /\ RestartedAfterResize
    /\ m.lastUpdate > m.gameStartTime
    /\ m.hasMoved

\* C2: the phase starts at Loading and changes only from Loading to Playing
\* on load-completed, from Loading to GameOver on load-failed, from Playing
\* to GameOver on a tick, from Playing to Victory on a movement key, and
\* from GameOver or Victory to Playing on enter or space; it never returns
\* to Loading, and a movement key, a restart key or a tick in Loading
\* leaves it Loading.
C2_PhaseTransitions ==
    /\ m.state = stateLoading
    /\ [][/\ m'.state = stateLoading => m.state = stateLoading
          /\ m'.state # m.state =>
                \/ /\ m.state = stateLoading /\ m'.state = statePlaying
                   /\ LoadCompleted
                \/ /\ m.state = stateLoading /\ m'.state = stateGameOver
                   /\ LoadFailed
                \/ /\ m.state = statePlaying /\ m'.state = stateGameOver
                   /\ Tick
                \/ /\ m.state = statePlaying /\ m'.state = stateVictory
                   /\ \E key \in MoveKeys : KeyMsg(key)
                \/ /\ m.state \in {stateGameOver, stateVictory}
                   /\ m'.state = statePlaying
                   /\ \E key \in RestartKeys : KeyMsg(key)
          /\ (/\ m.state = stateLoading
              /\ Tick \/ \E key \in MoveKeys \cup RestartKeys : KeyMsg(key))
                => m'.state = stateLoading]_vars

\* Victory in a game restarted after a resize: every kind of step was taken.
C2_Witness ==
    /\ m.state = stateVictory
    /\ RestartedAfterResize

\* The obstacle covers the cell, by its integer position.
Occupies(cell, obs) ==
    /\ cell.y = obs.pos.y
    /\ obs.pos.x <= cell.x
    /\ cell.x < obs.pos.x + obs.width

\* The obstacles of a list that cover the cell.
Occupying(cell, obstacles) ==
    {i \in DOMAIN obstacles : Occupies(cell, obstacles[i])}

\* C3, as claimed: if in Playing an obstacle occupies the frog's cell when a
\* tick arrives, that tick ends in GameOver with a message that contains the
\* id and the label of an obstacle that occupied the cell.
C3_HitWhenTickArrives ==
    [][(m.state = statePlaying /\ Tick /\ Occupying(m.frog, m.obstacles) # {})
         => /\ m'.state = stateGameOver
            /\ \E i \in Occupying(m.frog, m.obstacles) :
                  /\ Contains(m'.collisionMsg, m.obstacles[i].cveID)
                  /\ Contains(m'.collisionMsg, m.obstacles[i].severityLabel)]_vars

\* C3, amended: if in Playing an obstacle occupies the frog's cell once the
\* tick has moved and wrapped the obstacles, that tick ends in GameOver, with
\* a message that contains the id and the label of the first such obstacle
\* of the list.
C3_HitAfterMove ==
    [][(m.state = statePlaying /\ Tick /\ Occupying(m'.frog, m'.obstacles) # {})
         => LET hits == Occupying(m'.frog, m'.obstacles)
                first == CHOOSE i \in hits : \A j \in hits : i <= j
            IN /\ m'.state = stateGameOver
               /\ m'.collisionCVE = m'.obstacles[first].cveID
               /\ Contains(m'.collisionMsg, m'.obstacles[first].cveID)
               /\ Contains(m'.collisionMsg, m'.obstacles[first].severityLabel)]_vars

\* A game over by the first of two obstacles that cover the frog's cell.
C3_Witness ==
    /\ m.state = stateGameOver
    /\ \E i, j \in Occupying(m.frog, m.obstacles) :
          /\ i < j
          /\ m.obstacles[i].cveID # m.obstacles[j].cveID
          /\ m.collisionCVE = m.obstacles[i].cveID
          /\ Contains(m.collisionMsg, m.obstacles[i].severityLabel)

\* C4: in Playing a movement key that brings the frog to row 0 gives
\* Victory in the same step; no key press in Playing ends in GameOver,
\* whatever obstacles there are; Victory is entered in no other way, from
\* row 1; and the frog is in row 0 in every Victory state.
C4_VictoryAtRowZero ==
    [][/\ (m.state = statePlaying /\ m'.frog.y = 0) => m'.state = stateVictory
       /\ (m.state = statePlaying /\ \E key \in Keys : KeyMsg(key))
            => m'.state # stateGameOver
       /\ (m'.state = stateVictory /\ m.state # stateVictory)
            => /\ m.state = statePlaying
               /\ m.frog.y = 1
               /\ \E key \in UpKeys : KeyMsg(key)
       /\ m'.state = stateVictory => m'.frog.y = 0]_vars

\* Victory among obstacles that ticks have moved.
C4_Witness ==
    /\ m.state = stateVictory
    /\ m.frog.y = 0
    /\ Len(m.obstacles) > Len(m.lanes)
    /\ m.lastUpdate > m.gameStartTime

\* The step is a restart: enter or space delivered in GameOver or Victory.
RestartStep ==
    /\ m.state \in {stateGameOver, stateVictory}
    /\ \E key \in RestartKeys : KeyMsg(key)

\* C5: a restart key in GameOver or Victory re-enters Playing with the
\* obstacles generated from the cached list, and the provider is not
\* invoked: it is invoked at most once in a session, and only the
\* load-completed event changes the cached list.
C5_RestartReusesCache ==
    [][/\ providerCalls' <= 1
       /\ RestartStep
            => /\ m'.state = statePlaying
               /\ providerCalls' = providerCalls
               /\ loadMsg' = loadMsg
               /\ m'.loadedVulns = m.loadedVulns
               /\ \E nan \in NaNValues(m.loadedVulns) :
                     m'.obstacles =
                         generateObstacles(m.loadedVulns, makeLanes, m.width, nan)
       /\ m'.loadedVulns # m.loadedVulns => LoadCompleted]_vars

\* A game just restarted, after a resize, from the one call's list.
C5_Witness ==
    /\ m.state = statePlaying
    /\ RestartedAfterResize
    /\ providerCalls = 1
    /\ m.lastUpdate = m.gameStartTime
    /\ ~m.hasMoved
    /\ m.frog.y = gameAreaHeight - 1

\* The field: every obstacle's row, starting position, width and velocity.
FieldOf(obstacles) ==
    [i \in DOMAIN obstacles |->
        [y |-> obstacles[i].pos.y, x |-> obstacles[i].pos.x,
         floatX |-> obstacles[i].floatX, width |-> obstacles[i].width,
         speed |-> obstacles[i].speed]]

\* rows, widths and velocities only
LayoutOf(obstacles) ==
    [i \in DOMAIN obstacles |->
        [y |-> obstacles[i].pos.y, width |-> obstacles[i].width,
         speed |-> obstacles[i].speed]]

LoadFailure ==
    /\ m.state = stateGameOver
    /\ Contains(m.collisionMsg, "Failed to load vulnerabilities: ")

\* C7, as claimed: a load-failed event, which arrives in Loading, gives
\* GameOver with a message that contains the provider's error, and this is
\* terminal: no later event changes the phase.
C7_LoadFailureIsTerminal ==
    [][/\ LoadFailed
            => /\ m.state = stateLoading
               /\ m'.state = stateGameOver
               /\ Contains(m'.collisionMsg, loadMsg.err)
       /\ LoadFailure => m'.state = stateGameOver]_vars

\* The cells probed around an obstacle: from the column before its first to
\* the column after its last, in its row, the rows next to it and the
\* frog's row.
ProbeCells(obs) ==
    {[x |-> x, y |-> y] :
        x \in (obs.pos.x - 1) .. (obs.pos.x + obs.width),
        y \in {obs.pos.y - 1, obs.pos.y, obs.pos.y + 1, m.frog.y}}

\* C8: checkCollision(frog, obstacle) is true exactly when the frog is in
\* the obstacle's row and obstacle.x <= frog.x < obstacle.x + width, by the
\* integer position: true at obstacle.x, false at obstacle.x + width, false
\* in every other row.
C8_CheckCollisionIff ==
    \A i \in DOMAIN m.obstacles :
        LET obs == m.obstacles[i]
        IN /\ \A cell \in ProbeCells(obs) \cup {m.frog} :
                 checkCollision(cell, obs) <=>
                     /\ cell.y = obs.pos.y
                     /\ obs.pos.x <= cell.x
                     /\ cell.x < obs.pos.x + obs.width
           /\ checkCollision([x |-> obs.pos.x, y |-> obs.pos.y], obs)
           /\ ~checkCollision([x |-> obs.pos.x + obs.width, y |-> obs.pos.y], obs)
           /\ \A y \in 0 .. gameAreaHeight - 1 :
                 y # obs.pos.y => ~checkCollision([x |-> obs.pos.x, y |-> y], obs)

\* A game over at the last cell of a wide obstacle that ticks have moved.
C8_Witness ==
    /\ m.state = stateGameOver
    /\ m.lastUpdate > m.gameStartTime
    /\ \E i \in DOMAIN m.obstacles :
          /\ m.collisionCVE = m.obstacles[i].cveID
          /\ m.obstacles[i].width > 1
          /\ m.frog.y = m.obstacles[i].pos.y
          /\ m.frog.x = m.obstacles[i].pos.x + m.obstacles[i].width - 1

\* Labels and scores (in tenths) around every case of the mapping.
ProbeLabels == {"Critical", "High", "Medium", "Low", "Negligible", "Unknown", ""}
ProbeScores == {0, 1, 39, 40, 69, 70, 89, 90, 100}

\* The mapping as the claim words it; the multiplier in tenths.
ClaimedProperties(label, score) ==
    IF score > 0
    THEN IF score >= 90 THEN <<2, 15>>
         ELSE IF score >= 70 THEN <<2, 12>>
         ELSE IF score >= 40 THEN <<1, 13>>
         ELSE <<1, 10>>
    ELSE IF label = "Critical" THEN <<2, 15>>
    ELSE IF label = "High" THEN <<2, 12>>
    ELSE IF label = "Medium" THEN <<1, 13>>
    ELSE IF label = "Low" THEN <<1, 10>>
    ELSE IF label = "Negligible" THEN <<1, 8>>
    ELSE <<1, 10>>

\* C9: getObstacleProperties gives the width and the multiplier the score
\* decides when the score is above 0, and those the label decides when the
\* score is 0; an obstacle has the width of its record, which is 1 or 2.
C9_SeverityMapping ==
    /\ \A label \in ProbeLabels, score \in ProbeScores :
          LET props == getObstacleProperties(Vuln("CVE-1", label, score))
          IN <<props.width, props.speedMultiplier>>
                 = ClaimedProperties(label, score)
    /\ \A i \in DOMAIN m.obstacles :
          /\ m.obstacles[i].width
                 = ClaimedProperties(m.obstacles[i].severityLabel,
                                     m.obstacles[i].severity)[1]
          /\ m.obstacles[i].width \in {1, 2}

\* A field in which a score overrides the label both ways: a wide obstacle
\* labelled Low and a narrow one labelled Critical.
C9_Witness ==
    /\ m.state = statePlaying
    /\ \E i, j \in DOMAIN m.obstacles :
          /\ m.obstacles[i].severityLabel = "Low"
          /\ m.obstacles[i].width = 2
          /\ m.obstacles[j].severityLabel = "Critical"
          /\ m.obstacles[j].width = 1

\* The time the physics of the current game has covered.
Elapsed == m.lastUpdate - m.gameStartTime

\* C10, as claimed: whatever ticks a wall-clock interval T was cut into,
\* every obstacle's precise position is displaced by velocity x T x 30.
C10_DisplacementOfAnyObstacle ==
    \A i \in DOMAIN m.obstacles :
        m.obstacles[i].floatX = track[i].x0 + m.obstacles[i].speed * Elapsed

\* C10, amended: whatever ticks a wall-clock interval T was cut into, the
\* precise position of every obstacle that was not wrapped at a screen edge
\* in the interval is displaced by velocity x T x 30.
C10_DisplacementUnlessWrapped ==
    \A i \in DOMAIN m.obstacles :
        ~track[i].wrapped =>
            m.obstacles[i].floatX = track[i].x0 + m.obstacles[i].speed * Elapsed

\* Two units covered in two ticks: an obstacle that the first tick wrapped
\* has moved one unit since, and one that was not wrapped has moved two.
C10_Witness ==
    /\ Elapsed = 2
    /\ \E k \in DOMAIN m.obstacles :
          /\ track[k].wrapped
          /\ m.obstacles[k].floatX
                = Float64(m.width + MarginCols) + m.obstacles[k].speed
    /\ \E i \in DOMAIN m.obstacles :
          /\ ~track[i].wrapped
          /\ m.obstacles[i].floatX = track[i].x0 + 2 * m.obstacles[i].speed
          /\ m.obstacles[i].floatX # track[i].x0

\* The integer position is within the margins of a viewport of this width.
WithinMargins(obs, width) ==
    /\ -(obs.width + MarginCols) <= obs.pos.x
    /\ obs.pos.x <= width + MarginCols

\* C11: after every tick processed in Playing, every obstacle's integer
\* position x is between -(its width + 5) and the viewport width + 5, for
\* the width at that tick, however often the obstacle was wrapped and
\* wherever it was before the tick.
C11_PositionWithinMargins ==
    [][(m.state = statePlaying /\ Tick)
         => \A i \in DOMAIN m'.obstacles :
               WithinMargins(m'.obstacles[i], m.width)]_vars

\* A right-moving obstacle that started far left of the screen, was wrapped
\* to the right margin by one tick and from there to the left margin by the
\* next.
C11_Witness ==
    /\ m.state = statePlaying
    /\ \E i \in DOMAIN m.obstacles :
          /\ track[i].wrapped
          /\ track[i].x0 < Float64(-(m.obstacles[i].width + MarginCols))
          /\ m.obstacles[i].speed > 0
          /\ m.obstacles[i].pos.x = -(m.obstacles[i].width + MarginCols)
          /\ WithinMargins(m.obstacles[i], m.width)

\* A game has been started: startGame has recorded its start time.
GameStarted == m.gameStartTime # NoTime

\* Where a movement key would put the frog, bounds aside.
Target(frog, key) ==
    IF key \in UpKeys THEN [frog EXCEPT !.y = @ - 1]
    ELSE IF key \in DownKeys THEN [frog EXCEPT !.y = @ + 1]
    ELSE IF key \in LeftKeys THEN [frog EXCEPT !.x = @ - 1]
    ELSE IF key \in RightKeys THEN [frog EXCEPT !.x = @ + 1]
    ELSE frog

\* The cell is in the playable area of a viewport of this width.
InBounds(cell, width) ==
    /\ 0 <= cell.x /\ cell.x < width
    /\ 0 <= cell.y /\ cell.y < gameAreaHeight

\* C12, as claimed: in every state after a game start the frog is in the
\* playable area, 0 <= x < viewport width and 0 <= y < 20, whatever
\* movements, ticks, restarts and viewport sizes came before, and a movement
\* key that would take it out of the area leaves it where it is.
C12_FrogWithinBounds ==
    /\ [](GameStarted => InBounds(m.frog, m.width))
    /\ [][\A key \in MoveKeys :
             (m.state = statePlaying /\ KeyMsg(key)
                 /\ ~InBounds(Target(m.frog, key), m.width))
               => m'.frog = m.frog]_vars

\* The step starts a game: the load completes, or a game is restarted.
GameStartStep == LoadCompleted \/ RestartStep

\* The symbols a decorative item may have.
Palette == {"heart", "sparkles", "star"}

\* C13: every game start, by the load or by a restart, from an empty list
\* marks the session decorative, makes no obstacle and makes exactly 12
\* decorative items, each with a symbol of the palette and none on the
\* frog's spawn cell; a start from a non-empty list leaves the session not
\* decorative and without decorative items.
C13_DecorativeOnEmptyList ==
    [][GameStartStep =>
         IF Len(m'.loadedVulns) = 0
         THEN /\ m'.isZeroVulnGame
              /\ m'.obstacles = <<>>
              /\ Len(m'.decorativeItems) = NumDecorativeItems
              /\ \A i \in DOMAIN m'.decorativeItems :
                    /\ m'.decorativeItems[i].symbol \in Palette
                    /\ [x |-> m'.decorativeItems[i].x,
                        y |-> m'.decorativeItems[i].y] # m'.frog
         ELSE /\ ~m'.isZeroVulnGame
              /\ m'.decorativeItems = <<>>]_vars

\* A decorative game just restarted (one tick in flight: a load leaves two)
\* in the resized viewport.
C13_Witness ==
    /\ m.state = statePlaying
    /\ ticks = 1
    /\ m.lastUpdate = m.gameStartTime
    /\ m.loadedVulns = <<>>
    /\ m.isZeroVulnGame
    /\ Len(m.decorativeItems) = NumDecorativeItems
    /\ m.width # DefaultWidth
    /\ m.frog = [x |-> GoDiv(m.width, 2), y |-> gameAreaHeight - 1]

\* C14: a decorative session is never in GameOver, whatever ticks,
\* movements, restarts and viewport sizes it went through: a tick in Playing
\* leaves it Playing with the frog where it was, and an up key in Playing
\* moves the frog one row up, to Victory when that row is row 0.
C14_DecorativeNeverGameOver ==
    /\ [](m.isZeroVulnGame => m.state \in {statePlaying, stateVictory})
    /\ [][(m.isZeroVulnGame /\ m.state = statePlaying)
             => /\ m'.state # stateGameOver
                /\ Tick => (m'.state = statePlaying /\ m'.frog = m.frog)
                /\ (\E key \in UpKeys : KeyMsg(key))
                     => /\ m'.frog = [m.frog EXCEPT !.y = @ - 1]
                        /\ m'.state = IF m.frog.y = 1 THEN stateVictory
                                                      ELSE statePlaying]_vars

\* A decorative game still Playing after a tick, with a decorative item that
\* the ticks have moved in the frog's cell.
C14_Witness ==
    /\ m.state = statePlaying
    /\ m.isZeroVulnGame
    /\ m.lastUpdate > m.gameStartTime
    /\ \E i \in DOMAIN m.decorativeItems :
          /\ m.decorativeItems[i].x = m.frog.x
          /\ m.decorativeItems[i].y = m.frog.y
          /\ m.decorativeItems[i].floatX # m.decorativeItems[i].x * DecXScale

\* C15: in every state, whatever the phase, Update answers a quit key (q,
\* esc, ctrl+c) with the unchanged Model and the quit command; delivering
\* the key changes nothing of the session but sends the message that ends
\* it.
C15_QuitInEveryPhase ==
    /\ [](\A key \in QuitKeys : UpdateKey(m, key, now, 0) = Ret(m, "Quit"))
    /\ [][(\E key \in QuitKeys : KeyMsgQuitting(key))
             => /\ m' = m
                /\ ticks' = ticks
                /\ quitMsg' = "sent"]_vars

\* A session that a quit key ends in Victory: the load had not failed.
C15_Witness ==
    /\ quitMsg = "sent"
    /\ m.state = stateVictory
    /\ m.loadedVulns # <<>>

\* C16: Update answers a tick in Loading with the unchanged Model and the
\* next tick, and a tick in GameOver or Victory with the unchanged Model and
\* no command; so a tick delivered in GameOver or Victory changes nothing of
\* the Model and leaves one tick less in flight, one delivered in Loading
\* leaves as many, and a restart arms one more.
C16_TickingByPhase ==
    /\ [](m.state = stateLoading => UpdateTick(m, now, 1) = Ret(m, "tick"))
    /\ [](m.state \in {stateGameOver, stateVictory}
             => UpdateTick(m, now, 1) = Ret(m, "nil"))
    /\ [][/\ (Tick /\ m.state = stateLoading)
               => (m' = m /\ ticks' = ticks)
          /\ (Tick /\ m.state \in {stateGameOver, stateVictory})
               => (m' = m /\ ticks' = ticks - 1)
          /\ RestartStep => ticks' = ticks + 1]_vars

\* A game just restarted with the one tick the restart armed: the ticks of
\* the game before were used up in GameOver or Victory.
C16_Witness ==
    /\ m.state = statePlaying
    /\ ticks = 1
    /\ m.lastUpdate = m.gameStartTime
    /\ m.obstacles # <<>>
    /\ m.collisionCVE = ""

\* The rows with a lane.
LaneRows(lanes) == {lanes[i].y : i \in DOMAIN lanes}

\* C17: once a game has been started, by the load or by a restart and at
\* whatever viewport size, there are exactly eight lanes, at rows 18, 16,
\* 14, 12, 10, 8, 6, 4 in this order, lane i (from 0) running right (+1)
\* when i is even and left (-1) when i is odd; rows 0 to 3, row 19 and the
\* odd rows have no lane; and only a game start assigns the lanes.
C17_EightLanes ==
    /\ [](GameStarted =>
            /\ Len(m.lanes) = 8
            /\ \A i \in 0 .. 7 :
                  /\ m.lanes[i + 1].y = 18 - 2 * i
                  /\ m.lanes[i + 1].direction = (IF i % 2 = 0 THEN 1 ELSE -1)
            /\ \A y \in 0 .. gameAreaHeight - 1 :
                  (y <= 3 \/ y = 19 \/ y % 2 = 1) => y \notin LaneRows(m.lanes))
    /\ [][m'.lanes # m.lanes => GameStartStep]_vars

\* A game restarted in the resized viewport, with its lanes, in play: a tick
\* has moved the obstacles and the frog has moved.
C17_Witness ==
    /\ m.state = statePlaying
    /\ RestartedAfterResize
    /\ m.height # DefaultHeight
    /\ Len(m.lanes) = 8
    /\ m.lanes[8].y = 4
    /\ m.lastUpdate > m.gameStartTime
    /\ m.hasMoved

\* The obstacles of a list that are in this row.
InRow(obstacles, y) == {i \in DOMAIN obstacles : obstacles[i].pos.y = y}

\* C18: in every started game with L > 0 lanes, obstacle i (from 0) is in
\* the row of lane i mod L, so that the populations of two lanes differ by
\* at most one, and its velocity is the lane's base speed times the
\* multiplier of its record times the lane's direction, so that the sign of
\* its velocity is the direction of its lane.
C18_RoundRobin ==
    (GameStarted /\ Len(m.lanes) > 0) =>
        /\ \A k \in DOMAIN m.obstacles :
              LET lane == m.lanes[((k - 1) % Len(m.lanes)) + 1]
                  mult == getObstacleProperties(m.loadedVulns[k]).speedMultiplier
              IN /\ m.obstacles[k].pos.y = lane.y
                 /\ m.obstacles[k].speed = lane.speed * mult * lane.direction
                 /\ m.obstacles[k].speed > 0 <=> lane.direction = 1
                 /\ m.obstacles[k].speed < 0 <=> lane.direction = -1
        /\ \A i, j \in DOMAIN m.lanes :
              Cardinality(InRow(m.obstacles, m.lanes[i].y))
                  <= Cardinality(InRow(m.obstacles, m.lanes[j].y)) + 1

\* More records than lanes: the ninth obstacle is in the first lane with the
\* first, the second lane runs left, and ticks have moved them.
C18_Witness ==
    /\ m.state = statePlaying
    /\ Len(m.obstacles) = Len(m.lanes) + 1
    /\ InRow(m.obstacles, m.lanes[1].y) = {1, Len(m.lanes) + 1}
    /\ m.obstacles[2].speed < 0
    /\ m.lastUpdate > m.gameStartTime

\* The Model after n successive up keys, no other event in between.
RECURSIVE UpKeysFrom(_, _)
UpKeysFrom(mod, n) ==
    IF n = 0 THEN mod
    ELSE UpKeysFrom(UpdateKey(mod, "up", now, 0).m, n - 1)

\* C19: in Playing a movement key either leaves the frog where it is or
\* moves it by exactly one cell in the key's direction (up y-1, down y+1,
\* left x-1, right x+1), the other coordinate unchanged; and from a frog on
\* the spawn row 19, k successive up keys bring it to row 19 - k in the same
\* column, still Playing for k < 19 and in Victory at row 0 for k = 19.
C19_OneCellPerKey ==
    /\ []((m.state = statePlaying /\ m.frog.y = gameAreaHeight - 1) =>
            \A k \in 1 .. 19 :
                LET after == UpKeysFrom(m, k)
                IN /\ after.frog = [x |-> m.frog.x, y |-> 19 - k]
                   /\ after.state = IF k = 19 THEN stateVictory
                                              ELSE statePlaying)
    /\ [][\A key \in MoveKeys :
             (m.state = statePlaying /\ KeyMsg(key))
               => m'.frog \in {m.frog, Target(m.frog, key)}]_vars

\* Victory in the spawn column, reached among obstacles without a
\* horizontal key and before any time of the game had passed.
C19_Witness ==
    /\ m.state = stateVictory
    /\ m.frog = [x |-> GoDiv(m.width, 2), y |-> 0]
    /\ sideKeys = 0
    /\ m.obstacles # <<>>
    /\ m.lastUpdate = m.gameStartTime

\* The step delivers a movement key in Playing.
MoveStep == m.state = statePlaying /\ \E key \in MoveKeys : KeyMsgTimed(key)

\* The step starts a game: the load completes, or a restart key is delivered
\* in GameOver or Victory.
StartStep ==
    \/ LoadCompleted
    \/ /\ m.state \in {stateGameOver, stateVictory}
       /\ \E key \in RestartKeys : KeyMsgTimed(key)

\* C20: the first-move flag is set, and the time recorded, by the first
\* movement key of a game that moves the frog, and by nothing else: a
\* movement key that a bound blocks changes neither, a key after the first
\* move leaves the recorded time as it is, a game start leaves the flag
\* false with the frog on its spawn cell, and the frog stays there for as
\* long as the flag is false.
C20_FirstMove ==
    [][/\ (MoveStep /\ m'.frog # m.frog) => m'.hasMoved
       /\ (MoveStep /\ m'.frog = m.frog)
            => (m'.hasMoved = m.hasMoved /\ m'.firstMoveTime = m.firstMoveTime)
       /\ (m'.hasMoved /\ ~m.hasMoved)
            => (MoveStep /\ m'.frog # m.frog /\ m'.firstMoveTime = now)
       /\ m'.firstMoveTime # m.firstMoveTime
            => \/ ~m.hasMoved /\ m'.hasMoved
               \/ StartStep /\ m'.firstMoveTime = Rebased(m).firstMoveTime
       /\ (m.hasMoved /\ ~m'.hasMoved) => StartStep
       /\ StartStep
            => /\ ~m'.hasMoved
               /\ m'.frog = [x |-> GoDiv(m.width, 2), y |-> gameAreaHeight - 1]
       /\ (~m'.hasMoved /\ ~StartStep) => m'.frog = m.frog]_vars

\* A restarted game in which the frog has moved more than once and the
\* recorded time is before the last tick's.
C20_Witness ==
    /\ m.state = statePlaying
    /\ ticks = 1
    /\ m.hasMoved
    /\ m.firstMoveTime = 1
    /\ m.lastUpdate = 2
    /\ m.frog.y < gameAreaHeight - 2

---------------------------------------------------------------------------
\* C21: concurrent sessions are independent.  A session that connects gets a
\* Model of its own, the one NewModel makes, and an event handled in one
\* session (its connection, its provider's result, a key, a viewport size,
\* a tick) leaves every other session as it was: its Model (phase, frog,
\* obstacles and the rest), its load, its ticks in flight and its clock.
C21_SessionsIndependent ==
    [][\A s \in SessionIds :
          /\ Connect(s) => sessions'[s].m = NewModel
          /\ \A t \in SessionIds \ {s} :
                Delivered(t) => sessions'[s] = sessions[s]]_vars

\* Two sessions at once, in different phases and at different widths: one
\* has lost its game, the frog of the other has left the start row.
C21_Witness ==
    /\ \A s \in SessionIds : sessions[s].connected
    /\ sessions[1].m.state = stateGameOver
    /\ sessions[2].m.state = statePlaying
    /\ sessions[2].m.frog.y < gameAreaHeight - 1
    /\ sessions[1].m.width # sessions[2].m.width

---------------------------------------------------------------------------
\* The obstacles formatCollisionMessage is probed with: an obstacle with a
\* label and one without, at the scores around each threshold, and each
\* other kind of id with and without a score.
ProbeObstacle(id, label, score) ==
    [cveID |-> id, severity |-> score, severityLabel |-> label]

MessageProbes ==
    {ProbeObstacle("CVE-1", label, score) :
        label \in {"", "Negligible"}, score \in ProbeScores}
    \cup {ProbeObstacle(id, label, score) :
            id \in {"GHSA-2", "XRAY-7"}, label \in {"", "High"}, score \in {0, 75}}

\* The label the claim gives the message of an obstacle.
ClaimedLabel(label, score) ==
    IF label # "" THEN label
    ELSE IF score >= 90 THEN "Critical"
    ELSE IF score >= 70 THEN "High"
    ELSE IF score >= 40 THEN "Medium"
    ELSE "Low"

\* The message is as the claim has it for the obstacle.
ClaimedMessage(msg, obs) ==
    /\ \E i \in DOMAIN msg : msg[i] = obs.cveID
    /\ \E i \in DOMAIN msg :
          /\ msg[i] = ClaimedLabel(obs.severityLabel, obs.severity)
          /\ i < Len(msg)
          /\ msg[Len(msg)] = "Game over!"
    /\ (\E i \in DOMAIN msg : msg[i] = "CVSS ") <=> obs.severity > 0
    /\ (\E i \in 1 .. Len(msg) - 1 :
            msg[i] = "CVSS " /\ msg[i + 1] = FormatScore(obs.severity))
         <=> obs.severity > 0

\* C22: the collision message of an obstacle contains its id and, before the
\* closing "Game over!", its label when it has one and otherwise the label
\* its score gives (>= 9.0 Critical, >= 7.0 High, >= 4.0 Medium, else Low);
\* "CVSS " and the score are in it exactly when the score is above 0.  This
\* holds of formatCollisionMessage on every probed obstacle, and of the
\* message a lost game shows for the obstacle that hit the frog.
C22_CollisionMessage ==
    /\ \A obs \in MessageProbes : ClaimedMessage(formatCollisionMessage(obs), obs)
    /\ (m.state = stateGameOver /\ m.collisionObs # <<>>)
          => /\ m.collisionMsg = formatCollisionMessage(m.collisionObs[1])
             /\ ClaimedMessage(m.collisionMsg, m.collisionObs[1])

\* A game lost to an obstacle with a score, whose message shows it.
C22_Witness ==
    /\ m.state = stateGameOver
    /\ m.collisionObs # <<>>
    /\ m.collisionObs[1].severity > 0
    /\ Contains(m.collisionMsg, "CVSS ")
    /\ Contains(m.collisionMsg, FormatScore(m.collisionObs[1].severity))

---------------------------------------------------------------------------
\* C23: obstacle generation never computes a NaN position.  Whenever the
\* field has an obstacle, the loop length its positions were wrapped by is
\* above 0, and int() has never been applied to a NaN.
C23_LoopLengthPositive ==
    /\ m.obstacles # <<>> => loopLengthFor(m.loadedVulns, m.lanes) > 0
    /\ intOfNaN = <<>>

---------------------------------------------------------------------------
\* C24: on a Model without lanes generateObstacles returns with no obstacle,
\* whatever the list, empty or not, and it marks no Model as decorative;
\* startGame marks the Model decorative exactly when the list is empty.
C24_NoLanesNoObstacles ==
    /\ (loadMsg.kind = "returned" /\ m.lanes = <<>>) => m.obstacles = <<>>
    /\ ~m.isZeroVulnGame
    /\ \A vulns \in VulnLists :
          startGame(m, vulns, 0, 0).isZeroVulnGame <=> vulns = <<>>

\* generateObstacles has returned from a call with nine records and no lane.
C24_Witness ==
    /\ loadMsg.kind = "returned"
    /\ Len(loadMsg.vulns) = 9
    /\ m.lanes = <<>>
    /\ m.obstacles = <<>>

---------------------------------------------------------------------------
\* The step delivers a down key in Playing.
DownStep == m.state = statePlaying /\ \E key \in DownKeys : KeyMsg(key)

\* C25, as claimed: once a viewport-size event has set the height h, a down
\* key moves the frog one row down when its row is above h - 3, and leaves
\* it where it is otherwise.
C25_DownBoundFollowsViewport ==
    [][(DownStep /\ m.height # DefaultHeight)
         => m'.frog.y = IF m.frog.y < m.height - 3 THEN m.frog.y + 1
                        ELSE m.frog.y]_vars

\* C25, amended: the playable height is the fixed gameAreaHeight.  A
\* viewport-size event changes nothing of the Model but its width and
\* height, and whatever the height, a down key moves the frog one row down
\* when its row is above gameAreaHeight - 1, which is the lowest row it
\* reaches, and leaves it where it is otherwise.
C25_DownBoundIsFixed ==
    /\ [](GameStarted => m.frog.y <= gameAreaHeight - 1)
    /\ [][DownStep
             => m'.frog = IF m.frog.y < gameAreaHeight - 1
                          THEN [m.frog EXCEPT !.y = @ + 1]
                          ELSE m.frog]_vars
    /\ [][(\E size \in Sizes : WindowSizeMsg(size[1], size[2]))
             => m' = [m EXCEPT !.width = m'.width, !.height = m'.height]]_vars

\* In a viewport of 10 rows a frog that has moved up is back in row 19.
C25_Witness ==
    /\ m.state = statePlaying
    /\ m.height = 10
    /\ m.hasMoved
    /\ sideKeys = 0
    /\ m.frog.y = gameAreaHeight - 1

---------------------------------------------------------------------------
\* The step delivers a movement key in Playing.
PlayerMoves == m.state = statePlaying /\ \E key \in MoveKeys : KeyMsg(key)

---------------------------------------------------------------------------
\* C27: at most one tick is armed or awaiting delivery, at any point of a
\* session.
C27_AtMostOneTick == ticks <= 1

---------------------------------------------------------------------------
\* C28: ticking does not die while it is needed.  In Loading and in Playing
\* at least one tick is armed or awaiting delivery and its delivery is
\* possible; and a tick delivered in Playing advances every obstacle by
\* the time since the last physics step and leaves a tick armed.  With
\* the timers' fair delivery (SpecTicking) the obstacles are therefore
\* advanced again and again for as long as the phase is Playing.
C28_TickingStaysAlive ==
    /\ [](m.state \in {stateLoading, statePlaying}
            => (ticks >= 1 /\ ENABLED Tick))
    /\ [][(m.state = statePlaying /\ Tick)
             => /\ ticks' >= 1
                /\ now' >= now
                /\ m'.lastUpdate = now'
                /\ \A i \in DOMAIN m.obstacles :
                      m'.obstacles[i]
                         = moveObstacle(m.obstacles[i], now' - m.lastUpdate,
                                        m.width)]_vars

\* A restarted game whose only tick is the one the restart armed, and whose
\* obstacles have been advanced to the last time followed.
C28_Witness ==
    /\ m.state = statePlaying
    /\ ticks = 1
    /\ m.obstacles # <<>>
    /\ m.lastUpdate = MaxTime

---------------------------------------------------------------------------
\* The obstacles of the Model, each advanced by delta and wrapped.
Advanced(mod, delta) ==
    [i \in DOMAIN mod.obstacles |-> moveObstacle(mod.obstacles[i], delta, mod.width)]

\* C29: a tick in Playing first advances and wraps every obstacle, and then
\* tests the frog against the obstacles where they are now, in the order of
\* the list.  Without an obstacle on the frog the game goes on and the
\* collision record is untouched; otherwise the game is over and the record
\* (id, score, label, message) is that of the obstacle on the frog with the
\* smallest index.  A movement key in Playing never ends in GameOver.
C29_MoveThenFirstHit ==
    /\ [][(m.state = statePlaying /\ Tick)
             => LET moved == Advanced(m, now' - m.lastUpdate)
                    hits == Occupying(m.frog, moved)
                IN /\ m'.obstacles = moved
                   /\ m'.frog = m.frog
                   /\ hits = {}
                        => /\ m'.state = statePlaying
                           /\ m'.collisionCVE = m.collisionCVE
                           /\ m'.collisionObs = m.collisionObs
                           /\ m'.collisionMsg = m.collisionMsg
                   /\ hits # {}
                        => LET first == CHOOSE i \in hits : \A j \in hits : i <= j
                           IN /\ m'.state = stateGameOver
                              /\ m'.collisionCVE = moved[first].cveID
                              /\ m'.collisionObs = <<moved[first]>>
                              /\ m'.collisionMsg
                                     = formatCollisionMessage(moved[first])]_vars
    /\ [][PlayerMoves => m'.state # stateGameOver]_vars

\* A game lost, after the frog has moved, to the first of two obstacles on
\* the frog that differ in score and label; the obstacle has been advanced
\* from where it was generated.
C29_Witness ==
    /\ m.state = stateGameOver
    /\ m.hasMoved
    /\ \E i, j \in Occupying(m.frog, m.obstacles) :
          /\ i < j
          /\ m.collisionObs = <<m.obstacles[i]>>
          /\ m.obstacles[i].severity # m.obstacles[j].severity
          /\ m.obstacles[i].severityLabel # m.obstacles[j].severityLabel
          /\ track[i].x0 # m.obstacles[i].floatX

---------------------------------------------------------------------------
\* C30: a tick teleports an obstacle only in its direction of travel.  When
\* a tick in Playing wraps an obstacle, a right-moving one was advanced to
\* beyond the right margin and is put at the left margin, a left-moving one
\* was advanced to beyond the left margin and is put at the right margin;
\* velocity and row are unchanged.
C30_TeleportInTravelDirection ==
    [][(m.state = statePlaying /\ Tick)
         => \A i \in DOMAIN m.obstacles :
               LET obs == m.obstacles[i]
                   delta == now' - m.lastUpdate
                   posX == IntOf(FAdd(obs.floatX, obs.speed * delta))
               IN wraps(obs, delta, m.width)
                    => /\ m'.obstacles[i].speed = obs.speed
                       /\ m'.obstacles[i].pos.y = obs.pos.y
                       /\ obs.speed > 0
                            => /\ posX > m.width + MarginCols
                               /\ m'.obstacles[i].pos.x = -obs.width - MarginCols
                       /\ obs.speed < 0
                            => /\ posX < -obs.width - MarginCols
                               /\ m'.obstacles[i].pos.x = m.width + MarginCols]_vars

---------------------------------------------------------------------------
\* C31: the wrap of a tick is decided on the precise position.  An obstacle
\* that a tick in Playing advances to a precise position beyond a margin is
\* wrapped by that tick to the opposite margin, also when the truncation of
\* that position is still on the margin.
C31_WrapOnPrecisePosition ==
    [][(m.state = statePlaying /\ Tick)
         => \A i \in DOMAIN m.obstacles :
               LET obs == m.obstacles[i]
                   floatX == FAdd(obs.floatX, obs.speed * (now' - m.lastUpdate))
               IN /\ floatX < Float64(-obs.width - MarginCols)
                       => m'.obstacles[i].pos.x = m.width + MarginCols
                  /\ floatX > Float64(m.width + MarginCols)
                       => m'.obstacles[i].pos.x = -obs.width - MarginCols]_vars

\* C32: in every state the integer position of every obstacle is the
\* truncation of its precise position.
C32_PosIsTruncatedFloat ==
    \A i \in DOMAIN m.obstacles :
        m.obstacles[i].pos.x = IntOf(m.obstacles[i].floatX)

\* An obstacle without its horizontal position: row, width, velocity,
\* identifier, score and label.
Fixed(obs) == [obs EXCEPT !.pos.x = 0, !.floatX = 0]

FixedOf(obstacles) == [i \in DOMAIN obstacles |-> Fixed(obstacles[i])]

\* The cell startGame puts the frog on.
SpawnCell(width) == [x |-> width \div 2, y |-> gameAreaHeight - 1]

\* C33: a tick changes of the obstacles only their horizontal positions and
\* never the frog; the rows, widths, velocities, identifiers, scores and
\* labels of the obstacles, their number and their order change only when a
\* game starts; a movement key in Playing changes no obstacle; and the frog
\* changes only by a movement key in Playing or by the reset to the spawn
\* cell when a game starts.
C33_FrameOfTickAndMove ==
    [][/\ Tick => (m'.frog = m.frog /\ FixedOf(m'.obstacles) = FixedOf(m.obstacles))
       /\ ~GameStartStep => FixedOf(m'.obstacles) = FixedOf(m.obstacles)
       /\ PlayerMoves => m'.obstacles = m.obstacles
       /\ m'.frog # m.frog
            => \/ PlayerMoves
               \/ GameStartStep /\ m'.frog = SpawnCell(m.width)]_vars

\* A game in which ticks have moved an obstacle and keys have moved the frog.
C33_Witness ==
    /\ m.state = statePlaying
    /\ m.frog # SpawnCell(m.width)
    /\ \E i \in DOMAIN m.obstacles : m.obstacles[i].floatX # track[i].x0
    /\ FixedOf(m.obstacles) = FixedOf(loadField.obstacles)

\* The Model without the viewport size.
Unsized(mod) == [mod EXCEPT !.width = 0, !.height = 0]

\* What the claim says of a viewport-size event (w, h) handled from mod.
Resized(mod, w, h, after) ==
    /\ (w > 0 /\ h > 0) => (after.width = w /\ after.height = h)
    /\ (w <= 0 \/ h <= 0) => (after.width = mod.width /\ after.height = mod.height)
    /\ after.state = mod.state
    /\ after.frog = mod.frog
    /\ after.obstacles = mod.obstacles
    /\ after.lanes = mod.lanes
    /\ after.loadedVulns = mod.loadedVulns

\* C34: a viewport-size event with a positive width and a positive height
\* sets the stored width and height to its values, and one with a
\* non-positive dimension leaves both as they are; in every phase, the event
\* changes neither the phase, the frog, the obstacles, the lanes nor the
\* cached list.  The handler is applied to every size in every reachable
\* state, and the steps that deliver an event are followed.
C34_ResizeSetsSizeOnly ==
    /\ [](\A size \in Sizes :
            Resized(m, size[1], size[2], UpdateWindowSize(m, size[1], size[2]).m))
    /\ [][\A size \in Sizes :
            WindowSizeMsg(size[1], size[2]) => Resized(m, size[1], size[2], m')]_vars

\* A viewport-size event has been handled in a game under way: the frog and
\* the obstacles are where the 80-column game put them.
C34_Witness ==
    /\ m.width = 16 /\ m.height = 10
    /\ m.state = statePlaying
    /\ m.frog.x = DefaultWidth \div 2
    /\ m.obstacles # <<>>
    /\ m.obstacles = loadField.obstacles

\* C35: while the phase is Playing the frog's row is between 1 and 19, so
\* the frog is never seen on row 0 in Playing: the key that takes it there
\* ends the game in the same step.  Every game start, by the load or by a
\* restart, puts the frog on the spawn cell, column width / 2 of row 19.
C35_FrogRowsInPlaying ==
    /\ [](m.state = statePlaying => (1 <= m.frog.y /\ m.frog.y <= gameAreaHeight - 1))
    /\ [][GameStartStep
            => (m'.state = statePlaying /\ m'.frog = SpawnCell(m'.width))]_vars
    /\ [][(m.state = statePlaying /\ m'.frog.y = 0) => m'.state = stateVictory]_vars

\* A game started in a viewport of 16 columns, on column 8, with the frog
\* moved up to row 1.
C35_Witness ==
    /\ m.state = statePlaying
    /\ m.frog.y = 1
    /\ m.gameStartTime # NoTime
    /\ m.width = 16
    /\ m.frog.x = 8

\* The collision record of the Model is empty.
NoCollisionRecord(mod) ==
    /\ mod.collisionCVE = ""
    /\ mod.collisionMsg = <<>>
    /\ mod.collisionObs = <<>>

\* C36: the collision record agrees with the phase.  In Loading, Playing and
\* Victory the collision id, the message and the stored obstacle are empty.
\* In GameOver the message is not empty, and when a collision caused the
\* game over (a tick in Playing ended the game, which always stores the
\* obstacle) the stored obstacle's id is the collision id and is the id of
\* an obstacle of the current field.  A restart clears the whole record.
C36_CollisionRecordFollowsPhase ==
    /\ [](m.state \in {stateLoading, statePlaying, stateVictory}
            => NoCollisionRecord(m))
    /\ [](m.state = stateGameOver
            => /\ m.collisionMsg # <<>>
               /\ m.collisionObs # <<>>
                    => /\ m.collisionObs[1].cveID = m.collisionCVE
                       /\ \E i \in DOMAIN m.obstacles :
                             m.obstacles[i].cveID = m.collisionCVE)
    /\ [][(m.state = statePlaying /\ m'.state = stateGameOver)
            => (Tick /\ m'.collisionObs # <<>>)]_vars
    /\ [][RestartStep => NoCollisionRecord(m')]_vars

\* A game lost by a collision: the record holds the obstacle and its id.
C36_Witness ==
    /\ m.state = stateGameOver
    /\ m.collisionObs # <<>>
    /\ m.collisionCVE # ""
    /\ m.collisionCVE = m.collisionObs[1].cveID

\* The step starts a game on the wall clock.
WallStartStep ==
    \/ WallLoadCompleted
    \/ /\ m.state \in {stateGameOver, stateVictory}
       /\ \E key \in RestartKeys : WallKeyMsg(key)

\* C37: the delta of the first tick handled after the load completed or
\* after a restart is the wall-clock time since that event.  A game start
\* at time t leaves the obstacles as generated and records t as the time of
\* the last update; until the first tick in Playing nothing else writes that
\* time; a tick in Playing advances every obstacle by the time since the
\* last update, which is never before the start of the game; and outside
\* Playing no step but a game start changes an obstacle, whatever time
\* passes.
C37_DeltaSinceStart ==
    /\ [](m.state = statePlaying
            => (m.gameStartTime <= m.lastUpdate /\ m.lastUpdate <= now))
    /\ [][WallStartStep
            => /\ m'.gameStartTime = now' /\ m'.lastUpdate = now'
               /\ \E nan \in IntOfNaNChoices :
                     m'.obstacles = generateObstacles(m'.loadedVulns, makeLanes,
                                                      m.width, nan)]_vars
    /\ [][(m.state = statePlaying /\ WallTick)
            => /\ m'.lastUpdate = now'
               /\ \A i \in DOMAIN m.obstacles :
                     m'.obstacles[i]
                       = moveObstacle(m.obstacles[i], now' - m.lastUpdate, m.width)]_vars
    /\ [][(m.state = statePlaying /\ ~WallTick) => m'.lastUpdate = m.lastUpdate]_vars
    /\ [][(m.state # statePlaying /\ ~WallStartStep)
            => m'.obstacles = m.obstacles]_vars

\* A game that started one time unit after the session was created, and
\* whose first advancing tick, one unit later, moved an obstacle by one
\* unit of travel.
C37_Witness ==
    /\ m.state = statePlaying
    /\ m.gameStartTime = 1
    /\ m.lastUpdate = 2
    /\ \E i \in DOMAIN m.obstacles :
          /\ ~track[i].wrapped
          /\ m.obstacles[i].floatX = track[i].x0 + m.obstacles[i].speed

\* The rows 4, 6, ..., 18.
RoadRows == {2 * k : k \in 2 .. 9}

\* C38: every obstacle is on one of the lane rows 4, 6, ..., 18 in every
\* state, so a tick ends the game by a collision only while the frog is on
\* a lane row: not on the spawn row 19, not on an odd row, not on rows 1 to
\* 3, and never for a player who has not moved since the game started.
C38_HitOnlyOnLaneRows ==
    /\ [](\A i \in DOMAIN m.obstacles : m.obstacles[i].pos.y \in RoadRows)
    /\ [](m.collisionObs # <<>>
            => (m.frog.y \in RoadRows /\ m.frog.y = m.collisionObs[1].pos.y))
    /\ [][(m.state = statePlaying /\ m'.state = stateGameOver)
            => /\ m.frog.y \in RoadRows
               /\ m.frog.y \notin {gameAreaHeight - 1, 1, 2, 3}
               /\ m.frog.y % 2 = 0
               /\ m.hasMoved]_vars

\* A tick has ended the game of a frog that had moved up to a lane row,
\* and obstacles are on other rows as well.
C38_Witness ==
    /\ m.state = stateGameOver
    /\ m.hasMoved
    /\ m.frog.y \in RoadRows
    /\ \E i \in DOMAIN m.obstacles :
          m.obstacles[i].pos.y = m.frog.y /\ checkCollision(m.frog, m.obstacles[i])
    /\ \E i \in DOMAIN m.obstacles : m.obstacles[i].pos.y # m.frog.y

\* C39: generateObstacles gives the obstacles of a lane distinct starting
\* positions: whatever the number of records, no two different obstacles of
\* the same row of the eight-lane layout have the same integer position
\* when the call returns.
C39_DistinctStartsInLane ==
    loadMsg.kind = "returned"
        => \A i, j \in DOMAIN m.obstacles :
              (i # j /\ m.obstacles[i].pos.y = m.obstacles[j].pos.y)
                  => m.obstacles[i].pos.x # m.obstacles[j].pos.x

====
